---- MODULE Spec2Model ----
(***************************************************************************)
(* WebiFy: the staged website generator behind POST /process-prompt/.      *)
(*                                                                         *)
(* builder/views.py keeps one serialized GenerationState per session in    *)
(* the Django cache; builder/services.py advances it one phase per call    *)
(* (structure -> html -> css -> js -> completed) through a generator that  *)
(* retries the external model and memoizes its answers in the same cache.  *)
(*                                                                         *)
(* A request is modelled in steps that end at its external model calls:    *)
(* ProcessPrompt runs the handler up to the first model call (or to its    *)
(* end when no call is made), ModelCall is one attempt of the retry loop   *)
(* and, when it is the last one, the rest of the handler (phase result,    *)
(* cache.set of the state, response).                                      *)
(***************************************************************************)
EXTENDS Integers, Sequences, FiniteSets, TLC

(***************************************************************************)
(* Program constants                                                       *)
(***************************************************************************)
CACHE_TIMEOUT == 3600
MAX_RETRIES == 3
MIN_CONTENT_LENGTH == 100
CHUNK_SIZE == 4000

(***************************************************************************)
(* Bounds of the model                                                     *)
(***************************************************************************)
\* A request is only started while the loaded errors list is at most this
\* long (a failing phase appends up to two entries).
MaxErrors == 2
\* The longest text, in pieces, given to a helper that is called directly.
MaxText == 3
\* The most <img> tags of a page.
MaxImages == 2
\* The longest alt text given to get_context_from_alt, in pieces.
MaxAlt == 5
\* The seconds that pass in one step of time where expiry is followed in
\* steps shorter than the timeout.
TickSeconds == 1800

(***************************************************************************)
(* Values                                                                  *)
(***************************************************************************)
\* Python's None.
None == [type |-> "None"]
\* The empty string, as a text.
EmptyText == [b |-> <<>>, n |-> 0]
\* cache.get found nothing (or an expired entry).
Miss == [type |-> "miss"]

\* request.session.session_key: None for a client without a session.
SessionKeys == {None, [type |-> "key", k |-> "A"]}

\* Descriptions a client may send: nothing, the bakery page of the spec's
\* scenario, and one so long that the structure prompt exceeds a chunk.
Descriptions == {"", "bakery", "long"}

DescLen(d) ==
    CASE d = "" -> 0
      [] d = "bakery" -> 21
      [] d = "long" -> 1040

(***************************************************************************)
(* Texts.  A text returned by the model is [b, n, ws]: b the sequence of   *)
(* bodies it is made of, n its length without surrounding whitespace, ws   *)
(* the amount of surrounding whitespace.  A stripped text is [b, n].       *)
(***************************************************************************)
\* What the bodies the model may answer with look like to the parsers:
\*   "json"   a JSON object with the five required keys and no other
\*   "partial" a JSON object that lacks some required key
\*   "broken" text from a { to a } that is not JSON (a key without quotes)
\*   "prose"  text without braces, tags or fences
\*   "page"   HTML with <header>, <main> and <footer>
\*   "thorny" HTML on which the post-processing of _clean_html throws
Bodies == {"json", "partial", "broken", "prose", "page", "thorny"}

\* str.strip()
Strip(t) == [b |-> t.b, n |-> t.n]
\* len()
TextLen(t) == IF "ws" \in DOMAIN t THEN t.n + t.ws ELSE t.n
\* str + str
Concat(s, t) == [b |-> s.b \o t.b, n |-> s.n + t.n]
\* truth value of a str
NonEmpty(t) == t # EmptyText


(***************************************************************************)
(* WebsiteStructure and GenerationState, as objects and as the dicts that  *)
(* asdict() makes of them for the session store.                           *)
(***************************************************************************)
\* The component list of the default structure (services.py:374).
DefaultComponents == <<"header", "main", "footer">>
\* The component list of the model's own JSON answer.
ModelComponents == <<"header", "hero">>

\* json.loads of a "json" body / the default of _validate_and_clean_json:
\* the dict with the five required keys.
ModelData == [type |-> "dict", components |-> ModelComponents, tokens |-> "model"]
DefaultData == [type |-> "dict", components |-> DefaultComponents, tokens |-> "default"]
\* json.loads of a "partial" body: some required key is missing.
PartialData == [type |-> "dict", tokens |-> "model"]

RequiredKeysPresent(data) == "components" \in DOMAIN data

\* WebsiteStructure(**structure)
WebsiteStructure(d) ==
    [type |-> "WebsiteStructure", components |-> d.components, tokens |-> d.tokens]
\* asdict(structure)
StructureAsDict(s) ==
    [type |-> "dict", components |-> s.components, tokens |-> s.tokens]

\* GenerationState()
GenerationState ==
    [type |-> "GenerationState", structure |-> None, html |-> EmptyText,
     css |-> EmptyText, js |-> EmptyText, components |-> <<>>, errors |-> <<>>,
     warnings |-> <<>>, progress |-> 0, completed |-> FALSE,
     generation_start |-> None, generation_end |-> None]

\* The empty dict {} that cache.get(cache_key, {}) defaults to.
EmptyDict == [type |-> "dict"]

\* asdict(generator.current_state)
AsDict(gs) ==
    [gs EXCEPT !.type = "dict",
               !.structure = IF gs.structure = None THEN None
                             ELSE StructureAsDict(gs.structure)]

\* LoadState that leaves 'structure' the dict it was stored as.
LoadStateKeepsDict(current_state) ==
    IF current_state = EmptyDict THEN GenerationState
    ELSE [current_state EXCEPT !.type = "GenerationState"]

\* process_generation's rebuild of the generator state from current_state:
\* an empty (falsy) dict leaves the fresh GenerationState in place, otherwise
\* a truthy 'structure' is rebuilt as WebsiteStructure and the dict's fields
\* become the GenerationState's.
LoadState(current_state) ==
    IF current_state = EmptyDict THEN GenerationState
    ELSE [current_state EXCEPT
            !.type = "GenerationState",
            !.structure = IF current_state.structure = None THEN None
                          ELSE WebsiteStructure(current_state.structure)]

(***************************************************************************)
(* Prompts of the generator                                                *)
(***************************************************************************)
TagLen(c) ==
    CASE c = "header" -> 6 [] c = "main" -> 4 [] c = "footer" -> 6
      [] c = "hero" -> 4 [] OTHER -> 3

RECURSIVE SumTagLen(_)
SumTagLen(cs) == IF cs = <<>> THEN 0 ELSE TagLen(Head(cs)) + 2 + SumTagLen(Tail(cs))

\* len(json.dumps(components))
JsonDumpsLen(cs) == IF cs = <<>> THEN 2 ELSE 2 + SumTagLen(cs) + 2 * (Len(cs) - 1)

StructurePrompt(d) == [kind |-> "structure", d |-> d, comps |-> <<>>]
HtmlPrompt(d, cs) == [kind |-> "html", d |-> d, comps |-> cs]
\* The CSS and JS prompts are fixed strings: they embed neither the
\* description nor the structure.
CssPrompt == [kind |-> "css", d |-> "", comps |-> <<>>]
JsPrompt == [kind |-> "js", d |-> "", comps |-> <<>>]
\* The empty string, as a prompt.
EmptyPrompt == [kind |-> "empty", d |-> "", comps |-> <<>>]

\* len(prompt)
PromptLen(p) ==
    CASE p.kind = "structure" -> 2961 + DescLen(p.d)
      [] p.kind = "html" -> 469 + DescLen(p.d) + JsonDumpsLen(p.comps)
      [] p.kind = "css" -> 432
      [] p.kind = "js" -> 497
      [] p.kind = "empty" -> 0

\* len([prompt[i:i + 4000] for i in range(0, len(prompt), 4000)]) for a
\* prompt over 4000 characters, 1 for a prompt that is generated in one go.
NumChunks(p) ==
    IF PromptLen(p) > CHUNK_SIZE
    THEN (PromptLen(p) + CHUNK_SIZE - 1) \div CHUNK_SIZE
    ELSE 1

(***************************************************************************)
(* Parsing the structure answer                                            *)
(***************************************************************************)
\* Bodies that start with { and end with }, and those of them that are one
\* JSON object.
BraceBodies == {"json", "partial", "broken"}
JsonBodies == {"json", "partial"}

\* json.loads(content): the parsed dict, or JSONDecodeError for anything but
\* exactly one JSON object.
JsonLoads(b) ==
    IF Len(b) = 1 /\ b[1] \in JsonBodies
    THEN [ok |-> TRUE, data |-> IF b[1] = "json" THEN ModelData ELSE PartialData]
    ELSE [ok |-> FALSE, data |-> None]

\* re.search(r'({[\s\S]*})', content).group(1): everything from the first {
\* to the last }, or the empty sequence when there is no match.
RegexBlock(b) ==
    LET idx == {i \in 1..Len(b) : b[i] \in BraceBodies}
    IN IF idx = {} THEN <<>>
       ELSE LET lo == CHOOSE i \in idx : \A j \in idx : i <= j
                hi == CHOOSE i \in idx : \A j \in idx : i >= j
            IN SubSeq(b, lo, hi)

\* ValidateAndCleanJson that raises when nothing in the content parses.
ValidateAndCleanJsonStrict(content) ==
    LET r == JsonLoads(content.b)
        blk == RegexBlock(content.b)
    IN IF r.ok
       THEN IF RequiredKeysPresent(r.data)
            THEN [raised |-> FALSE, data |-> r.data]
            ELSE [raised |-> TRUE, data |-> None]
       ELSE IF blk # <<>> /\ JsonLoads(blk).ok
            THEN [raised |-> FALSE, data |-> JsonLoads(blk).data]
            ELSE [raised |-> TRUE, data |-> None]

\* _validate_and_clean_json(content).  The key check raises ValueError, which
\* the handler for JSONDecodeError does not catch; a block found by the
\* regular expression is returned without the key check.
ValidateAndCleanJson(content) ==
    LET r == JsonLoads(content.b)
        blk == RegexBlock(content.b)
    IN IF r.ok
       THEN IF RequiredKeysPresent(r.data)
            THEN [raised |-> FALSE, data |-> r.data]
            ELSE [raised |-> TRUE, data |-> None]
       ELSE IF blk # <<>> /\ JsonLoads(blk).ok
            THEN [raised |-> FALSE, data |-> JsonLoads(blk).data]
            ELSE [raised |-> FALSE, data |-> DefaultData]

(***************************************************************************)
(* Asset cleaners and component extraction                                 *)
(***************************************************************************)
\* Landmark tags a body contains, in document order.
Tags(body) == IF body = "page" THEN <<"header", "main", "footer">> ELSE <<>>

RECURSIVE AllTags(_)
AllTags(b) == IF b = <<>> THEN <<>> ELSE Tags(Head(b)) \o AllTags(Tail(b))

\* Whether the try block of _clean_html (lines 522-589) throws on the text.
\* Its handler calls self.logger, which a WebsiteGenerator does not have, so
\* the handler raises AttributeError itself and _clean_html raises.
CleanHtmlRaises(html) == NonEmpty(html) /\ \E i \in 1..Len(html.b) : html.b[i] = "thorny"

\* _clean_html: "" for "", otherwise the document template around the body.
CleanHtml(html) ==
    IF ~NonEmpty(html) THEN EmptyText
    ELSE [doc |-> "html", b |-> html.b]

\* _extract_components: one descriptor per landmark element.
ExtractComponents(html) ==
    IF ~NonEmpty(html) THEN <<>>
    ELSE [i \in 1..Len(AllTags(html.b)) |-> [type |-> AllTags(html.b)[i]]]

\* _clean_css: "" for "", otherwise the beautified text with the dark-mode
\* and print stubs.
CleanCss(css) ==
    IF ~NonEmpty(css) THEN EmptyText
    ELSE [doc |-> "css", b |-> css.b, dark |-> TRUE, print |-> TRUE]

\* _clean_js: "" for "", otherwise the beautified text under "use strict".
CleanJs(js) ==
    IF ~NonEmpty(js) THEN EmptyText
    ELSE [doc |-> "js", b |-> js.b, strict |-> TRUE]

\* The literal generate_js puts in front of the content.
JsBanner == [b |-> <<"banner">>, n |-> 35]

\* _validate_and_enhance_structure: reads current_state.html, which
\* generate_html has not assigned yet when it calls this.
ValidateAndEnhanceStructure(gs) ==
    IF ~NonEmpty(gs.html) THEN gs
    ELSE LET required == IF gs.structure = None THEN {}
                         ELSE {gs.structure.components[i] :
                                   i \in 1..Len(gs.structure.components)}
             found == {AllTags(gs.html.b)[i] : i \in 1..Len(AllTags(gs.html.b))}
         IN IF required \ found # {}
            THEN [gs EXCEPT !.warnings = Append(@, "Missing components")]
            ELSE gs

(***************************************************************************)
(* The phases of WebsiteGenerator.  Each is split at its one call of       *)
(* _generate_content: PhasePre is the part before it, PhasePost the part   *)
(* after it returned content, PhaseGenFail the part after it raised.       *)
(***************************************************************************)
PhaseNames == {"analyze_structure", "generate_html", "generate_css", "generate_js"}

\* The message prefix of the phase's except clause.
PhaseError(phase) ==
    CASE phase = "analyze_structure" -> "Structure analysis failed"
      [] phase = "generate_html" -> "HTML generation failed"
      [] phase = "generate_css" -> "CSS generation failed"
      [] phase = "generate_js" -> "JavaScript generation failed"

\* AddError that starts the list over with the new entry.
AddErrorAlone(gs, msg) == [gs EXCEPT !.errors = <<msg>>]

\* current_state.errors.append(msg)
AddError(gs, msg) == [gs EXCEPT !.errors = Append(@, msg)]

\* PhasePre whose CSS phase goes on to its prompt without the test of html.
PhasePreCssUnchecked(gs, phase, description) ==
    CASE phase = "analyze_structure" ->
            IF description = ""
            THEN [go |-> FALSE, gs |-> AddError(gs, "No description provided"),
                  prompt |-> None]
            ELSE [go |-> TRUE, gs |-> gs, prompt |-> StructurePrompt(description)]
      [] phase = "generate_html" ->
            IF description = ""
            THEN [go |-> FALSE, gs |-> AddError(gs, "No description provided"),
                  prompt |-> None]
            ELSE [go |-> TRUE, gs |-> gs,
                  prompt |-> HtmlPrompt(description,
                                        IF gs.structure = None THEN <<>>
                                        ELSE gs.structure.components)]
      [] phase = "generate_css" -> [go |-> TRUE, gs |-> gs, prompt |-> CssPrompt]
      [] phase = "generate_js" ->
            IF ~NonEmpty(gs.html)
            THEN [go |-> FALSE,
                  gs |-> AddError(gs, "HTML must be generated before JavaScript"),
                  prompt |-> None]
            ELSE [go |-> TRUE, gs |-> gs, prompt |-> JsPrompt]

\* analyze_structure / generate_html: "if not description"; generate_css /
\* generate_js: "if not self.current_state.html"; then the prompt.
PhasePre(gs, phase, description) ==
    CASE phase = "analyze_structure" ->
            IF description = ""
            THEN [go |-> FALSE, gs |-> AddError(gs, "No description provided"),
                  prompt |-> None]
            ELSE [go |-> TRUE, gs |-> gs, prompt |-> StructurePrompt(description)]
      [] phase = "generate_html" ->
            IF description = ""
            THEN [go |-> FALSE, gs |-> AddError(gs, "No description provided"),
                  prompt |-> None]
            ELSE [go |-> TRUE, gs |-> gs,
                  prompt |-> HtmlPrompt(description,
                                        IF gs.structure = None THEN <<>>
                                        ELSE gs.structure.components)]
      [] phase = "generate_css" ->
            IF ~NonEmpty(gs.html)
            THEN [go |-> FALSE,
                  gs |-> AddError(gs, "HTML must be generated before CSS"),
                  prompt |-> None]
            ELSE [go |-> TRUE, gs |-> gs, prompt |-> CssPrompt]
      [] phase = "generate_js" ->
            IF ~NonEmpty(gs.html)
            THEN [go |-> FALSE,
                  gs |-> AddError(gs, "HTML must be generated before JavaScript"),
                  prompt |-> None]
            ELSE [go |-> TRUE, gs |-> gs, prompt |-> JsPrompt]

\* analyze_structure after _generate_content returned (lines 476-493).
AnalyzeStructurePost(gs, content) ==
    LET v == ValidateAndCleanJson(content)
    IN IF v.raised \/ ~RequiredKeysPresent(v.data)
       THEN [gs |-> AddError(gs, PhaseError("analyze_structure")), status |-> "error"]
       ELSE [gs |-> [gs EXCEPT !.structure = WebsiteStructure(v.data),
                               !.progress = 25],
             status |-> "success"]

\* generate_html after _generate_content returned (lines 615-628).
GenerateHtmlPost(gs, content) ==
    LET cleaned_html == CleanHtml(content)
        checked == ValidateAndEnhanceStructure(gs)
    IN IF CleanHtmlRaises(content)
       THEN [gs |-> AddError(gs, PhaseError("generate_html")), status |-> "error"]
       ELSE [gs |-> [checked EXCEPT !.components = ExtractComponents(cleaned_html),
                                    !.html = cleaned_html,
                                    !.progress = 50],
             status |-> "success"]

\* GenerateCssPost that leaves progress as it was.
GenerateCssPostNoProgress(gs, content) ==
    [gs |-> [gs EXCEPT !.css = CleanCss(content)], status |-> "success"]

\* generate_css after _generate_content returned (lines 652-654).
GenerateCssPost(gs, content) ==
    [gs |-> [gs EXCEPT !.css = CleanCss(content), !.progress = 75],
     status |-> "success"]

\* GenerateJsPost with a slip in the progress it sets.
GenerateJsPostProgress10(gs, content) ==
    [gs |-> [gs EXCEPT !.js = CleanJs(Concat(JsBanner, content)), !.progress = 10],
     status |-> "success"]

\* generate_js after _generate_content returned (lines 680-683).
GenerateJsPost(gs, content) ==
    [gs |-> [gs EXCEPT !.js = CleanJs(Concat(JsBanner, content)), !.progress = 100],
     status |-> "success"]

PhasePost(gs, phase, content) ==
    CASE phase = "analyze_structure" -> AnalyzeStructurePost(gs, content)
      [] phase = "generate_html" -> GenerateHtmlPost(gs, content)
      [] phase = "generate_css" -> GenerateCssPost(gs, content)
      [] phase = "generate_js" -> GenerateJsPost(gs, content)

\* The except clause of _generate_content (lines 343-347): its message goes
\* into the generator's current_state before the exception is raised again.
ContentGenerationFailed(gs) == AddError(gs, "Content generation failed")

\* The except clause of a phase: its message is appended and the phase
\* returns an error result.
PhaseExcept(gs, phase) ==
    [gs |-> AddError(gs, PhaseError(phase)), status |-> "error"]

\* PhaseGenFail that starts the phase's fields over.
PhaseGenFailClears(gs, phase) ==
    PhaseExcept(ContentGenerationFailed([gs EXCEPT !.progress = 0,
                                                   !.components = <<>>]), phase)

\* A phase whose _generate_content call raised after its retries.
PhaseGenFail(gs, phase) == PhaseExcept(ContentGenerationFailed(gs), phase)

\* SelectPhase with the html test in front of the structure test.
SelectPhaseHtmlFirst(gs) ==
    IF ~NonEmpty(gs.html) THEN "generate_html"
    ELSE IF gs.structure = None THEN "analyze_structure"
    ELSE IF ~NonEmpty(gs.css) THEN "generate_css"
    ELSE IF ~NonEmpty(gs.js) THEN "generate_js"
    ELSE "final_output"

\* process_generation's if/elif chain (lines 1042-1076): the phase is read off
\* the populated fields; a WebsiteStructure object is always truthy.
SelectPhase(gs) ==
    IF gs.structure = None THEN "analyze_structure"
    ELSE IF ~NonEmpty(gs.html) THEN "generate_html"
    ELSE IF ~NonEmpty(gs.css) THEN "generate_css"
    ELSE IF ~NonEmpty(gs.js) THEN "generate_js"
    ELSE "final_output"

(***************************************************************************)
(* The Django cache.  views.py keeps the session states in it under        *)
(* 'website_state_<session id>', services.py the generator's answers under *)
(* 'website_gen_<hash(prompt)>'; the two key families never meet, so they  *)
(* are two maps here.  An entry is [val, age], age the seconds since it was  *)
(* set; it is gone once age reaches the timeout it was set with.           *)
(***************************************************************************)
CacheGet(c, k) ==
    IF k \in DOMAIN c /\ c[k].age < CACHE_TIMEOUT THEN c[k].val ELSE Miss

\* CacheSet under which an entry that is set again keeps its age.
CacheSetKeepsAge(c, k, v) ==
    [x \in DOMAIN c \cup {k} |->
        IF x = k THEN [val |-> v, age |-> IF k \in DOMAIN c THEN c[k].age ELSE 0]
        ELSE c[x]]

\* cache.set(key, value, CACHE_TIMEOUT)
CacheSet(c, k, v) ==
    [x \in DOMAIN c \cup {k} |-> IF x = k THEN [val |-> v, age |-> 0] ELSE c[x]]

CacheDelete(c, k) == [x \in DOMAIN c \ {k} |-> c[x]]

\* dt seconds pass: every entry ages, and the backend drops the entries
\* whose timeout has run out.
CacheAge(c, dt) ==
    [x \in {k \in DOMAIN c : c[k].age + dt < CACHE_TIMEOUT} |->
        [c[x] EXCEPT !.age = @ + dt]]

\* History, not part of the cache: the entry of key k is marked with the
\* session whose request set it.
WrittenBy(c, k, sid) ==
    [c EXCEPT ![k] = [val |-> @.val, age |-> @.age, by |-> sid]]

\* SessionId without the fallback: the key is formatted from None itself.
SessionIdNoFallback(sk) == IF sk = None THEN "None" ELSE sk.k

\* request.session.session_key or 'default'
SessionId(sk) == IF sk = None THEN "default" ELSE sk.k

(***************************************************************************)
(* The external model.  One call either raises (network error, quota),     *)
(* returns a response without text, or returns a text.                     *)
(***************************************************************************)
Raises == [type |-> "raise"]
NoText == [type |-> "notext"]
Answer(b, n, ws) == [type |-> "text", text |-> [b |-> b, n |-> n, ws |-> ws]]

\* What the model may do when called with a prompt of the given kind.
Outcomes(kind) ==
    {Raises, NoText, Answer(<<"prose">>, 99, 0), Answer(<<"prose">>, 99, 1)}
    \cup CASE kind = "structure" ->
                 {Answer(<<"json">>, 100, 0), Answer(<<"partial">>, 100, 0),
                  Answer(<<"prose">>, 100, 2), Answer(<<"broken">>, 100, 0),
                  Answer(<<"prose", "json">>, 100, 0),
                  Answer(<<"prose", "partial">>, 100, 0)}
           [] kind = "html" -> {Answer(<<"page">>, 100, 0), Answer(<<"prose">>, 100, 0),
                                Answer(<<"thorny">>, 100, 0)}
           [] kind = "css" -> {Answer(<<"css">>, 100, 0)}
           [] kind = "js" -> {Answer(<<"js">>, 100, 0)}
           [] OTHER -> {}

\* AttemptOk measuring the text as the model sent it.
AttemptOkUnstripped(out) ==
    /\ out.type = "text"
    /\ ~(TextLen(out.text) < MIN_CONTENT_LENGTH)

\* One pass through the body of _generate_with_retry's loop (lines 288-297):
\* the response must be there, have a text, and the stripped text must be at
\* least MIN_CONTENT_LENGTH long.
AttemptOk(out) ==
    /\ out.type = "text"
    /\ ~(TextLen(Strip(out.text)) < MIN_CONTENT_LENGTH)

\* The outcomes that settle a call without a retry in vain: the model raises
\* or answers with an acceptable text.
Decisive(kind) == {out \in Outcomes(kind) : out = Raises \/ AttemptOk(out)}

(***************************************************************************)
(* State                                                                   *)
(***************************************************************************)
VARIABLES
    store,      \* session id -> [val: state dict, age]   ('website_state_*')
    rcache,     \* prompt -> [val: text, age]             ('website_gen_*')
    req,        \* client -> the request it has in flight or finished last
    shot,       \* the generate_website call of a generator used in one-shot mode
    bench       \* the last direct call of a helper: [fn, arg, out]

vars == <<store, rcache, req, shot, bench>>

Clients == {1, 2}

Idle ==
    [pc |-> "idle", op |-> "none", sid |-> "", prompt |-> "", reset |-> FALSE,
     loaded |-> EmptyDict, gs |-> GenerationState, phase |-> "none",
     gprompt |-> None, chunk |-> 0, attempt |-> 0, content |-> EmptyText,
     out |-> None, calls |-> 0, delays |-> 0, rcReads |-> 0, rcWrites |-> 0, stReads |-> 0,
     stWrites |-> 0, http |-> 0, status |-> "", result |-> "none",
     completed |-> FALSE, state |-> EmptyDict, gen |-> "none"]

\* A task of generate_website: one phase run on the executor.
NewTask ==
    [pc |-> "new", gprompt |-> None, chunk |-> 0, attempt |-> 0,
     content |-> EmptyText, calls |-> 0, status |-> "none", message |-> ""]

NoOutput ==
    [status |-> "none", message |-> "", html |-> EmptyText, css |-> EmptyText,
     js |-> EmptyText, progress |-> 0, completed |-> FALSE, errors |-> <<>>,
     warnings |-> <<>>]

NoShot ==
    [pc |-> "idle", description |-> "", gs |-> GenerationState,
     task |-> [t \in PhaseNames |-> NewTask], output |-> NoOutput]

\* No helper has been called.
NoCall == [fn |-> "none", arg |-> <<>>, out |-> <<>>]

Init ==
    /\ store = <<>>
    /\ rcache = <<>>
    /\ req = [c \in Clients |-> Idle]
    /\ shot = NoShot
    /\ bench = NoCall

\* No other client has a request in flight for the session.
NoOverlap(c, sid) == \A o \in Clients \ {c} : req[o].pc = "model" => req[o].sid # sid

(***************************************************************************)
(* The generator                                                           *)
(***************************************************************************)
\* GenerateContentStart without the cache lookup.
GenerateContentStartNoLookup(prompt, cache) ==
    IF PromptLen(prompt) = 0
    THEN [st |-> "invalid", content |-> EmptyText]
    ELSE [st |-> "miss", content |-> EmptyText]

\* GenerateContentStart without the test for the empty prompt.
GenerateContentStartNoCheck(prompt, cache) ==
    LET cached_response == CacheGet(cache, prompt)
    IN IF cached_response # Miss /\ NonEmpty(cached_response)
       THEN [st |-> "hit", content |-> cached_response]
       ELSE [st |-> "miss", content |-> EmptyText]

\* _generate_content up to its first call of the model (lines 312-320): the
\* empty prompt is refused, then the cache is asked; an absent (or falsy)
\* entry is a miss.
GenerateContentStart(prompt, cache) ==
    IF PromptLen(prompt) = 0
    THEN [st |-> "invalid", content |-> EmptyText]
    ELSE LET cached_response == CacheGet(cache, prompt)
         IN IF cached_response # Miss /\ NonEmpty(cached_response)
            THEN [st |-> "hit", content |-> cached_response]
            ELSE [st |-> "miss", content |-> EmptyText]

(***************************************************************************)
(* POST /process-prompt/                                                   *)
(***************************************************************************)
\* Respond that keeps the html already stored for the session.
RespondMerging(c, r, res, completed) ==
    LET state == AsDict(res.gs)
        kept == IF r.sid \in DOMAIN store /\ store[r.sid].val.html # EmptyText
                THEN [state EXCEPT !.html = store[r.sid].val.html]
                ELSE state
    IN /\ store' = CacheSet(store, r.sid, kept)
       /\ req' = [req EXCEPT ![c] =
                    [r EXCEPT !.pc = "done", !.gs = res.gs, !.result = res.status,
                              !.state = state, !.stWrites = @ + 1, !.http = 200,
                              !.status = "success", !.completed = completed]]

\* Respond that stores the state under every key of the store.
RespondEverySession(c, r, res, completed) ==
    LET state == AsDict(res.gs)
    IN /\ store' = [x \in DOMAIN store \cup {r.sid} |-> [val |-> state, age |-> 0]]
       /\ req' = [req EXCEPT ![c] =
                    [r EXCEPT !.pc = "done", !.gs = res.gs, !.result = res.status,
                              !.state = state, !.stWrites = @ + 1, !.http = 200,
                              !.status = "success", !.completed = completed]]

\* The end of process_generation and of process_prompt (services.py
\* 1078-1084, views.py 49-82) for a phase that ended with `res`: the state is
\* serialized, stored under the session's key for CACHE_TIMEOUT and relayed.
\* The view answers 'success' whatever the phase returned.
Respond(c, r, res, completed) ==
    LET state == AsDict(res.gs)
    IN /\ store' = CacheSet(store, r.sid, state)
       /\ req' = [req EXCEPT ![c] =
                    [r EXCEPT !.pc = "done", !.gs = res.gs, !.result = res.status,
                              !.state = state, !.stWrites = @ + 1, !.http = 200,
                              !.status = "success", !.completed = completed]]

\* _generate_content has returned `content` (ok) or raised: what its caller,
\* a phase of process_generation or the direct caller, makes of it.
Return(c, r, ok, content) ==
    IF r.op = "generate"
    THEN /\ req' = [req EXCEPT ![c] =
                      [r EXCEPT !.pc = "done", !.content = content,
                                !.gen = IF ok THEN "ok" ELSE "failed",
                                !.gs = IF ok THEN @ ELSE ContentGenerationFailed(@)]]
         /\ UNCHANGED store
    ELSE IF r.op = "generate_css"
    THEN LET res == IF ok THEN PhasePost(r.gs, r.phase, content)
                    ELSE PhaseGenFail(r.gs, r.phase)
         IN /\ req' = [req EXCEPT ![c] =
                         [r EXCEPT !.pc = "done", !.content = content,
                                   !.gen = IF ok THEN "ok" ELSE "failed",
                                   !.gs = res.gs, !.result = res.status]]
            /\ UNCHANGED store
    ELSE Respond(c, [r EXCEPT !.content = content,
                              !.gen = IF ok THEN "ok" ELSE "failed"],
                 IF ok THEN PhasePost(r.gs, r.phase, content)
                 ELSE PhaseGenFail(r.gs, r.phase), FALSE)

\* process_prompt up to the first call of the model, or to its end when the
\* request needs none.  apiOK: whether WebsiteGenerator() finds a usable key.
ProcessPrompt(c, sk, prompt, reset, apiOK) ==
    LET sid == SessionId(sk)
        r0 == [Idle EXCEPT !.op = "process_prompt", !.sid = sid,
                           !.prompt = prompt, !.reset = reset]
    IN
    /\ req[c].pc # "model"
    /\ UNCHANGED <<shot, bench>>
    /\ IF prompt = ""
       THEN \* views.py 34-38
            /\ req' = [req EXCEPT ![c] =
                         [r0 EXCEPT !.pc = "done", !.http = 400, !.status = "error"]]
            /\ UNCHANGED <<store, rcache>>
       ELSE
       LET got == IF reset THEN Miss ELSE CacheGet(store, sid)
           current_state == IF got = Miss THEN EmptyDict ELSE got
           r1 == [r0 EXCEPT !.loaded = current_state,
                            !.stReads = IF reset THEN 0 ELSE 1]
       IN
       /\ IF current_state = EmptyDict THEN TRUE
          ELSE Len(current_state.errors) <= MaxErrors
       /\ IF ~apiOK
          THEN \* WebsiteGenerator() raises; the except clause of
               \* process_generation reads the unbound `generator` and raises
               \* itself; process_prompt answers 500.
               /\ req' = [req EXCEPT ![c] =
                            [r1 EXCEPT !.pc = "done", !.http = 500, !.status = "error"]]
               /\ UNCHANGED <<store, rcache>>
          ELSE
          LET gs == LoadState(current_state)
              phase == SelectPhase(gs)
              r2 == [r1 EXCEPT !.gs = gs, !.phase = phase]
          IN
          IF phase = "final_output"
          THEN /\ Respond(c, r2, [gs |-> gs, status |-> "none"], TRUE)
               /\ UNCHANGED rcache
          ELSE
          LET pre == PhasePre(gs, phase, prompt)
          IN
          IF ~pre.go
          THEN /\ Respond(c, r2, [gs |-> pre.gs, status |-> "error"], FALSE)
               /\ UNCHANGED rcache
          ELSE
          LET start == GenerateContentStart(pre.prompt, rcache)
              r3 == [r2 EXCEPT !.gprompt = pre.prompt,
                               !.rcReads = IF start.st = "invalid" THEN 0 ELSE 1,
                               !.gen = start.st]
          IN
          CASE start.st = "invalid" ->
                  /\ Respond(c, r3, PhaseExcept(gs, phase), FALSE)
                  /\ UNCHANGED rcache
            [] start.st = "hit" ->
                  /\ Respond(c, [r3 EXCEPT !.content = start.content],
                             PhasePost(gs, phase, start.content), FALSE)
                  /\ UNCHANGED rcache
            [] start.st = "miss" ->
                  /\ req' = [req EXCEPT ![c] =
                               [r3 EXCEPT !.pc = "model", !.chunk = 1, !.attempt = 0]]
                  /\ UNCHANGED <<store, rcache>>

\* A direct call of WebsiteGenerator._generate_content(prompt) on a fresh
\* generator, up to its first call of the model.
GenerateContent(c, prompt) ==
    LET start == GenerateContentStart(prompt, rcache)
        r0 == [Idle EXCEPT !.op = "generate", !.gprompt = prompt,
                           !.rcReads = IF start.st = "invalid" THEN 0 ELSE 1,
                           !.gen = start.st]
    IN /\ req[c].pc # "model"
       /\ UNCHANGED <<shot, bench>>
       /\ CASE start.st = "invalid" ->
                  req' = [req EXCEPT ![c] = [r0 EXCEPT !.pc = "done"]]
            [] start.st = "hit" ->
                  req' = [req EXCEPT ![c] =
                            [r0 EXCEPT !.pc = "done", !.content = start.content]]
            [] start.st = "miss" ->
                  req' = [req EXCEPT ![c] =
                            [r0 EXCEPT !.pc = "model", !.chunk = 1, !.attempt = 0]]
       /\ UNCHANGED <<store, rcache>>

\* A direct call of generate_css(description) on a newly constructed
\* WebsiteGenerator, whose current_state is the fresh GenerationState: the
\* phase as generate_website submits it, outside process_generation's choice.
GenerateCss(c, description) ==
    LET gs == GenerationState
        pre == PhasePre(gs, "generate_css", description)
        r0 == [Idle EXCEPT !.op = "generate_css", !.prompt = description,
                           !.phase = "generate_css", !.gs = pre.gs]
    IN /\ req[c].pc # "model"
       /\ UNCHANGED <<shot, bench>>
       /\ IF ~pre.go
          THEN req' = [req EXCEPT ![c] = [r0 EXCEPT !.pc = "done", !.result = "error"]]
          ELSE LET start == GenerateContentStart(pre.prompt, rcache)
                   r1 == [r0 EXCEPT !.gprompt = pre.prompt, !.rcReads = 1,
                                    !.gen = start.st]
                   res == PhasePost(gs, "generate_css", start.content)
               IN IF start.st = "hit"
                  THEN req' = [req EXCEPT ![c] =
                                 [r1 EXCEPT !.pc = "done", !.content = start.content,
                                            !.gs = res.gs, !.result = res.status]]
                  ELSE req' = [req EXCEPT ![c] =
                                 [r1 EXCEPT !.pc = "model", !.chunk = 1, !.attempt = 0]]
       /\ UNCHANGED <<store, rcache>>

\* ModelCall in which the chunks of a prompt share one budget of attempts.
ModelCallSharedBudget(c, out) ==
    LET r == req[c]
        r1 == [r EXCEPT !.calls = @ + 1, !.out = out]
    IN
    /\ r.pc = "model"
    /\ UNCHANGED <<shot, bench>>
    /\ out \in Outcomes(r.gprompt.kind)
    /\ IF AttemptOk(out)
       THEN LET content == Concat(r.content, Strip(out.text))
            IN IF r.chunk < NumChunks(r.gprompt)
               THEN /\ req' = [req EXCEPT ![c] =
                                 [r1 EXCEPT !.content = content,
                                            !.chunk = @ + 1]]
                    /\ UNCHANGED <<store, rcache>>
               ELSE \* line 333: after the loop over the chunks, time.sleep(0.5);
                    \* lines 337-341: the length check, cache.set, return
                    LET r2 == [r1 EXCEPT !.delays = IF NumChunks(r.gprompt) > 1
                                                    THEN @ + 1 ELSE @]
                    IN IF TextLen(content) < MIN_CONTENT_LENGTH
                       THEN /\ Return(c, r2, FALSE, content)
                            /\ UNCHANGED rcache
                       ELSE /\ rcache' = WrittenBy(CacheSet(rcache, r.gprompt, content),
                                                   r.gprompt, r.sid)
                            /\ Return(c, [r2 EXCEPT !.rcWrites = @ + 1], TRUE, content)
       ELSE IF r.attempt < MAX_RETRIES - 1
            THEN /\ req' = [req EXCEPT ![c] = [r1 EXCEPT !.attempt = @ + 1]]
                 /\ UNCHANGED <<store, rcache>>
            ELSE \* line 308: RuntimeError after the last attempt
                 /\ Return(c, r1, FALSE, r.content)
                 /\ UNCHANGED rcache

\* One call of self.model.generate_content in _generate_with_retry, with
\* what follows it until the next call: the next attempt after a failure,
\* the next chunk after a success, or the end of _generate_content and of
\* its caller.
ModelCall(c, out) ==
    LET r == req[c]
        r1 == [r EXCEPT !.calls = @ + 1, !.out = out]
    IN
    /\ r.pc = "model"
    /\ UNCHANGED <<shot, bench>>
    /\ out \in Outcomes(r.gprompt.kind)
    /\ IF AttemptOk(out)
       THEN LET content == Concat(r.content, Strip(out.text))
            IN IF r.chunk < NumChunks(r.gprompt)
               THEN /\ req' = [req EXCEPT ![c] =
                                 [r1 EXCEPT !.content = content,
                                            !.chunk = @ + 1, !.attempt = 0]]
                    /\ UNCHANGED <<store, rcache>>
               ELSE \* line 333: after the loop over the chunks, time.sleep(0.5);
                    \* lines 337-341: the length check, cache.set, return
                    LET r2 == [r1 EXCEPT !.delays = IF NumChunks(r.gprompt) > 1
                                                    THEN @ + 1 ELSE @]
                    IN IF TextLen(content) < MIN_CONTENT_LENGTH
                       THEN /\ Return(c, r2, FALSE, content)
                            /\ UNCHANGED rcache
                       ELSE /\ rcache' = WrittenBy(CacheSet(rcache, r.gprompt, content),
                                                   r.gprompt, r.sid)
                            /\ Return(c, [r2 EXCEPT !.rcWrites = @ + 1], TRUE, content)
       ELSE IF r.attempt < MAX_RETRIES - 1
            THEN /\ req' = [req EXCEPT ![c] = [r1 EXCEPT !.attempt = @ + 1]]
                 /\ UNCHANGED <<store, rcache>>
            ELSE \* line 308: RuntimeError after the last attempt
                 /\ Return(c, r1, FALSE, r.content)
                 /\ UNCHANGED rcache

\* The model never answers a call.
Hangs == [type |-> "hang"]

\* self.model.generate_content(prompt) is entered and does not return: the
\* call passes no timeout (TIMEOUT is not used), so the request stays in it.
ModelHangs(c) ==
    /\ req[c].pc = "model"
    /\ req[c].out # Hangs
    /\ req' = [req EXCEPT ![c] = [@ EXCEPT !.calls = @ + 1, !.out = Hangs]]
    /\ UNCHANGED <<store, rcache, shot, bench>>

(***************************************************************************)
(* POST /reset-generation/ and GET /get-generation-state/                  *)
(***************************************************************************)
\* ResetGeneration that answers without deleting the key.
ResetGenerationKeeps(c, sk) ==
    LET sid == SessionId(sk)
    IN /\ req[c].pc # "model"
       /\ UNCHANGED <<shot, bench>>
       /\ req' = [req EXCEPT ![c] =
                    [Idle EXCEPT !.pc = "done", !.op = "reset_generation",
                                 !.sid = sid, !.stWrites = 1, !.http = 200,
                                 !.status = "success"]]
       /\ UNCHANGED <<store, rcache>>

\* reset_generation (views.py 92-121): the session's key is deleted.
ResetGeneration(c, sk) ==
    LET sid == SessionId(sk)
    IN /\ req[c].pc # "model"
       /\ UNCHANGED <<shot, bench>>
       /\ store' = CacheDelete(store, sid)
       /\ req' = [req EXCEPT ![c] =
                    [Idle EXCEPT !.pc = "done", !.op = "reset_generation",
                                 !.sid = sid, !.stWrites = 1, !.http = 200,
                                 !.status = "success"]]
       /\ UNCHANGED rcache

GetGenerationState(c, sk) ==
    LET sid == SessionId(sk)
        got == CacheGet(store, sid)
    IN /\ req[c].pc # "model"
       /\ UNCHANGED <<shot, bench>>
       /\ req' = [req EXCEPT ![c] =
                    [Idle EXCEPT !.pc = "done", !.op = "get_generation_state",
                                 !.sid = sid, !.stReads = 1, !.http = 200,
                                 !.status = "success",
                                 !.state = IF got = Miss THEN EmptyDict ELSE got]]
       /\ UNCHANGED <<store, rcache>>

(***************************************************************************)
(* Time                                                                    *)
(***************************************************************************)
\* dt seconds pass while no request is being served.
Tick(dt) ==
    /\ \A c \in Clients : req[c].pc # "model"
    /\ store' = CacheAge(store, dt)
    /\ rcache' = CacheAge(rcache, dt)
    /\ UNCHANGED req
    /\ UNCHANGED <<shot, bench>>

(***************************************************************************)
(* One-shot mode: generate_website on a generator of its own.  The four    *)
(* phases run as tasks of a thread pool on the generator's one             *)
(* current_state; a task is split at its calls of the model, so between   *)
(* two of them another task may run.                                       *)
(***************************************************************************)
Trio == {"generate_html", "generate_css", "generate_js"}

\* A time.time() reading.
Clock == [type |-> "time"]

\* The "message" of the result a phase returns before its try block.
RefusedMessage(phase) ==
    IF phase \in {"analyze_structure", "generate_html"}
    THEN "No description provided"
    ELSE "HTML generation required first"

\* The result a task ends with: the "message" is that of its error.
TaskEnds(k, status, message) ==
    [k EXCEPT !.pc = "done", !.status = status,
              !.message = IF status = "error" THEN message ELSE ""]

\* get_final_output (lines 975-1015); its append goes into the errors list
\* of current_state itself.
GetFinalOutput(gs) ==
    LET html == CleanHtml(gs.html)
        css == CleanCss(gs.css)
        js == CleanJs(gs.js)
        all == NonEmpty(html) /\ NonEmpty(css) /\ NonEmpty(js)
    IN [status |-> IF gs.errors = <<>> /\ all THEN "success" ELSE "error",
        message |-> "", html |-> html, css |-> css, js |-> js,
        progress |-> gs.progress, completed |-> gs.completed,
        errors |-> IF all THEN gs.errors
                   ELSE Append(gs.errors, "Some required components were not generated"),
        warnings |-> gs.warnings]

\* generate_website up to the submission of analyze_structure (lines 417-424).
GenerateWebsite(description) ==
    /\ shot.pc \in {"idle", "done"}
    /\ shot' = [NoShot EXCEPT !.pc = "structure", !.description = description,
                              !.gs = [GenerationState EXCEPT !.generation_start = Clock],
                              !.task["analyze_structure"].pc = "queued"]
    /\ UNCHANGED <<store, rcache, req, bench>>

\* A worker thread takes a submitted task and runs its phase up to the first
\* call of the model, or to its end when it needs none.
TaskStart(t) ==
    LET k == shot.task[t]
        pre == PhasePre(shot.gs, t, shot.description)
    IN /\ k.pc = "queued"
       /\ IF ~pre.go
          THEN shot' = [shot EXCEPT !.gs = pre.gs,
                                    !.task[t] = TaskEnds(k, "error", RefusedMessage(t))]
          ELSE LET start == GenerateContentStart(pre.prompt, rcache)
                   k1 == [k EXCEPT !.gprompt = pre.prompt]
               IN CASE start.st = "invalid" ->
                          shot' = [shot EXCEPT
                                     !.gs = PhaseExcept(shot.gs, t).gs,
                                     !.task[t] = TaskEnds(k1, "error", PhaseError(t))]
                    [] start.st = "hit" ->
                          LET res == PhasePost(shot.gs, t, start.content)
                          IN shot' = [shot EXCEPT
                                        !.gs = res.gs,
                                        !.task[t] = TaskEnds([k1 EXCEPT !.content = start.content],
                                                             res.status, PhaseError(t))]
                    [] start.st = "miss" ->
                          shot' = [shot EXCEPT
                                     !.task[t] = [k1 EXCEPT !.pc = "model", !.chunk = 1,
                                                            !.attempt = 0]]
       /\ UNCHANGED <<store, rcache, req, bench>>

\* One call of the model by a task, with what follows it until the task's
\* next call or its end.
TaskCall(t, out) ==
    LET k == shot.task[t]
        k1 == [k EXCEPT !.calls = @ + 1]
        failed == PhaseGenFail(shot.gs, t)
    IN
    /\ k.pc = "model"
    /\ out \in Outcomes(k.gprompt.kind)
    /\ IF AttemptOk(out)
       THEN LET content == Concat(k.content, Strip(out.text))
                res == PhasePost(shot.gs, t, content)
            IN IF k.chunk < NumChunks(k.gprompt)
               THEN /\ shot' = [shot EXCEPT
                                  !.task[t] = [k1 EXCEPT !.content = content,
                                                         !.chunk = @ + 1, !.attempt = 0]]
                    /\ UNCHANGED rcache
               ELSE IF TextLen(content) < MIN_CONTENT_LENGTH
                    THEN /\ shot' = [shot EXCEPT
                                       !.gs = failed.gs,
                                       !.task[t] = TaskEnds(k1, "error", PhaseError(t))]
                         /\ UNCHANGED rcache
                    ELSE /\ rcache' = WrittenBy(CacheSet(rcache, k.gprompt, content),
                                                k.gprompt, "one-shot")
                         /\ shot' = [shot EXCEPT
                                       !.gs = res.gs,
                                       !.task[t] = TaskEnds([k1 EXCEPT !.content = content],
                                                            res.status, PhaseError(t))]
       ELSE IF k.attempt < MAX_RETRIES - 1
            THEN /\ shot' = [shot EXCEPT !.task[t] = [k1 EXCEPT !.attempt = @ + 1]]
                 /\ UNCHANGED rcache
            ELSE /\ shot' = [shot EXCEPT
                               !.gs = failed.gs,
                               !.task[t] = TaskEnds(k1, "error", PhaseError(t))]
                 /\ UNCHANGED rcache
    /\ UNCHANGED <<store, req, bench>>

\* SubmitTrio that submits the three tasks whatever analyze_structure returned.
SubmitTrioRegardless ==
    /\ shot.pc = "structure"
    /\ shot.task["analyze_structure"].pc = "done"
    /\ shot' = [shot EXCEPT
                  !.pc = "trio",
                  !.task = [t \in PhaseNames |->
                              IF t \in Trio THEN [@[t] EXCEPT !.pc = "queued"]
                              ELSE @[t]]]
    /\ UNCHANGED <<store, rcache, req, bench>>

\* generate_website after analyze_structure's result has arrived (lines
\* 426-433): an error result raises into the except clause (lines 455-464),
\* otherwise the three tasks are submitted.
SubmitTrio ==
    /\ shot.pc = "structure"
    /\ shot.task["analyze_structure"].pc = "done"
    /\ IF shot.task["analyze_structure"].status = "error"
       THEN LET gs == AddError(shot.gs, "Website generation failed")
            IN shot' = [shot EXCEPT
                          !.pc = "done", !.gs = gs,
                          !.output = [NoOutput EXCEPT
                                        !.status = "error",
                                        !.message = "Website generation failed",
                                        !.errors = gs.errors,
                                        !.warnings = gs.warnings]]
       ELSE shot' = [shot EXCEPT
                       !.pc = "trio",
                       !.task = [t \in PhaseNames |->
                                   IF t \in Trio THEN [@[t] EXCEPT !.pc = "queued"]
                                   ELSE @[t]]]
    /\ UNCHANGED <<store, rcache, req, bench>>

\* The message of a result with status "error" goes to the warnings.
Warned(warnings, k) ==
    IF k.status = "error" THEN Append(warnings, k.message) ELSE warnings

\* Gather that marks the run completed only when no task failed.
GatherIfAllSucceeded ==
    LET failed == \E t \in Trio : shot.task[t].status = "error"
        gs == [shot.gs EXCEPT
                 !.warnings = Warned(Warned(Warned(@, shot.task["generate_html"]),
                                            shot.task["generate_css"]),
                                     shot.task["generate_js"]),
                 !.completed = ~failed,
                 !.progress = IF failed THEN @ ELSE 100,
                 !.generation_end = Clock]
        output == GetFinalOutput(gs)
    IN /\ shot.pc = "trio"
       /\ \A t \in Trio : shot.task[t].pc = "done"
       /\ shot' = [shot EXCEPT !.pc = "done",
                               !.gs = [gs EXCEPT !.errors = output.errors],
                               !.output = output]
       /\ UNCHANGED <<store, rcache, req, bench>>

\* generate_website after the three results have been gathered (lines
\* 435-453).
Gather ==
    LET gs == [shot.gs EXCEPT
                 !.warnings = Warned(Warned(Warned(@, shot.task["generate_html"]),
                                            shot.task["generate_css"]),
                                     shot.task["generate_js"]),
                 !.completed = TRUE, !.progress = 100,
                 !.generation_end = Clock]
        output == GetFinalOutput(gs)
    IN /\ shot.pc = "trio"
       /\ \A t \in Trio : shot.task[t].pc = "done"
       /\ shot' = [shot EXCEPT !.pc = "done",
                               !.gs = [gs EXCEPT !.errors = output.errors],
                               !.output = output]
       /\ UNCHANGED <<store, rcache, req, bench>>

(***************************************************************************)
(* Helpers called directly.  Here a text is the sequence of its pieces:    *)
(*   "nl"     a newline                                                    *)
(*   "fence"  a code fence, ``` with or without its language tag           *)
(*   "code"   a rule or a statement                                        *)
(*   "bad"    something the beautifier throws on                           *)
(*   "dark", "print"   the two @media blocks _clean_css looks for          *)
(*   "strict" the "use strict"; directive _clean_js looks for              *)
(***************************************************************************)
CssPieces == {"nl", "fence", "code", "bad", "dark", "print"}
JsPieces == {"nl", "fence", "code", "bad", "strict"}

\* The texts of at most MaxText pieces.
Texts(pieces) == UNION {[1..n -> pieces] : n \in 0..MaxText}

Pieces(t) == {t[i] : i \in 1..Len(t)}

\* str.strip() on the pieces.
RECURSIVE StripLeft(_)
StripLeft(t) ==
    IF t # <<>> /\ Head(t) = "nl" THEN StripLeft(Tail(t)) ELSE t

RECURSIVE StripRight(_)
StripRight(t) ==
    IF t # <<>> /\ t[Len(t)] = "nl" THEN StripRight(SubSeq(t, 1, Len(t) - 1)) ELSE t

StripText(t) == StripRight(StripLeft(t))

\* re.sub(r'```(?:css)?\n?|\n?```', '', text): one pass from the left; a fence
\* goes with the newline after it, or else with the newline before it.
RECURSIVE Unfence(_)
Unfence(t) ==
    IF t = <<>> THEN <<>>
    ELSE IF Head(t) = "fence"
    THEN IF Len(t) >= 2 /\ t[2] = "nl"
         THEN Unfence(SubSeq(t, 3, Len(t)))
         ELSE Unfence(Tail(t))
    ELSE IF Head(t) = "nl" /\ Len(t) >= 2 /\ t[2] = "fence"
    THEN Unfence(SubSeq(t, 3, Len(t)))
    ELSE <<Head(t)>> \o Unfence(Tail(t))

\* The beautifier, as far as the cleaners depend on it: it keeps the rules
\* and statements, has no blank lines at either end and at most
\* max_preserve_newlines newlines in a row, and makes nothing of nothing.
RECURSIVE SqueezeNewlines(_)
SqueezeNewlines(t) ==
    IF Len(t) >= 3 /\ t[1] = "nl" /\ t[2] = "nl" /\ t[3] = "nl"
    THEN SqueezeNewlines(Tail(t))
    ELSE IF t = <<>> THEN <<>>
    ELSE <<Head(t)>> \o SqueezeNewlines(Tail(t))

Beautify(t) == SqueezeNewlines(StripText(t))

\* Whether beautify raises on the text.
BeautifyRaises(t) == "bad" \in Pieces(t)

\* The texts the cleaners append or put in front.
DarkStub == <<"nl", "nl", "dark">>
PrintStub == <<"nl", "nl", "print">>
StrictStub == <<"strict", "nl", "nl">>

\* _clean_css on the pieces of its text (lines 915-944).
CleanCssText(css) ==
    IF css = <<>> THEN <<>>
    ELSE LET stripped == Unfence(StripText(css))
         IN IF BeautifyRaises(stripped) THEN stripped
            ELSE LET pretty == Beautify(stripped)
                     dark == IF "dark" \notin Pieces(pretty)
                             THEN pretty \o DarkStub ELSE pretty
                 IN IF "print" \notin Pieces(dark) THEN dark \o PrintStub ELSE dark

\* _clean_js on the pieces of its text (lines 946-973).
CleanJsText(js) ==
    IF js = <<>> THEN <<>>
    ELSE LET stripped == Unfence(StripText(js))
         IN IF BeautifyRaises(stripped) THEN stripped
            ELSE LET pretty == Beautify(stripped)
                 IN IF "strict" \notin Pieces(pretty)
                    THEN StrictStub \o pretty ELSE pretty

\* self._clean_css(css) / self._clean_js(js) called on a text.
CallCleanCss(css) ==
    /\ bench' = [fn |-> "_clean_css", arg |-> css, out |-> CleanCssText(css)]
    /\ UNCHANGED <<store, rcache, req, shot>>

CallCleanJs(js) ==
    /\ bench' = [fn |-> "_clean_js", arg |-> js, out |-> CleanJsText(js)]
    /\ UNCHANGED <<store, rcache, req, shot>>

(***************************************************************************)
(* Images.  An alt text is a sequence of pieces: words and spaces.          *)
(***************************************************************************)
\* The pieces alt texts are made of here: words, some capitalised, one
\* with a comma, and the space.
AltPieces == {"Company", "logo", "Image", "of", "photo,", " "}
AltTexts == UNION {[1..n -> AltPieces] : n \in 0..MaxAlt}

\* str.lower() of a piece, and of a text.
Lower(w) ==
    CASE w = "Company" -> "company"
      [] w = "Image" -> "image"
      [] OTHER -> w

LowerText(text) == [i \in 1..Len(text) |-> Lower(text[i])]

\* str.split(): the runs of pieces between spaces; word is the run begun.
RECURSIVE SplitWords(_, _)
SplitWords(text, word) ==
    IF text = <<>> THEN (IF word = <<>> THEN <<>> ELSE <<word>>)
    ELSE IF Head(text) = " "
    THEN (IF word = <<>> THEN <<>> ELSE <<word>>) \o SplitWords(Tail(text), <<>>)
    ELSE SplitWords(Tail(text), Append(word, Head(text)))

\* ' '.join(words)
RECURSIVE JoinWords(_)
JoinWords(words) ==
    IF words = <<>> THEN <<>>
    ELSE IF Tail(words) = <<>> THEN Head(words)
    ELSE Head(words) \o <<" ">> \o JoinWords(Tail(words))

common_words == {"image", "picture", "photo", "of", "the", "a", "an"}

\* word in common_words, a word being a run of pieces.
IsCommon(word) == IF Len(word) = 1 THEN word[1] \in common_words ELSE FALSE

\* GetContextFromAlt that drops the common words before lower-casing.
GetContextFromAltLate(alt_text) ==
    LowerText(JoinWords(SelectSeq(SplitWords(alt_text, <<>>),
                                  LAMBDA word : ~IsCommon(word))))

\* ImageHandler.get_context_from_alt (lines 135-149).  The strip() of line
\* 149 finds nothing to remove: a joined text neither starts nor ends with
\* a space.
GetContextFromAlt(alt_text) ==
    LET words == SplitWords(LowerText(alt_text), <<>>)
    IN JoinWords(SelectSeq(words, LAMBDA word : ~IsCommon(word)))

CallGetContextFromAlt(alt_text) ==
    /\ bench' = [fn |-> "get_context_from_alt", arg |-> alt_text,
                 out |-> GetContextFromAlt(alt_text)]
    /\ UNCHANGED <<store, rcache, req, shot>>

\* What download_images meets: enough files already stored for the context,
\* the crawler fetching files, the crawler ending without any file, or the
\* crawler (or the file system) throwing.
Crawls == {"stored", "fetched", "nothing", "throws"}

\* DownloadImages in which an exception of the crawler gets out.
DownloadImagesRaising(context, crawl) ==
    IF crawl = "throws" THEN [raised |-> TRUE, paths |-> <<>>]
    ELSE IF crawl = "nothing" THEN [raised |-> FALSE, paths |-> <<>>]
    ELSE [raised |-> FALSE, paths |-> <<[dir |-> context]>>]

\* ImageHandler.download_images (lines 100-133): the URLs of the files, or
\* the empty list from its except clause, which "No images downloaded" and
\* every exception of the crawler end in.
DownloadImages(context, crawl) ==
    IF crawl \in {"throws", "nothing"} THEN [raised |-> FALSE, paths |-> <<>>]
    ELSE [raised |-> FALSE, paths |-> <<[dir |-> context]>>]

\* An <img> tag as the model sent it.
Img(alt) == [alt |-> alt, src |-> [dir |-> "as sent"], class |-> "as sent"]

\* The Tailwind classes _clean_html picks from the alt text (lines 540-548);
\* no alt text here says hero or profile.
ImgClass(alt) ==
    IF \E i \in 1..Len(alt) : Lower(alt[i]) = "logo" THEN "h-12 w-auto"
    ELSE "w-full h-64 object-cover rounded-lg"

\* not img.get('alt', '').strip() (lines 527-528)
IsBlank(alt) == \A i \in 1..Len(alt) : alt[i] = " "

\* The body of _clean_html's loop over the img tags (lines 526-546).
CleanImg(img, crawl) ==
    IF IsBlank(img.alt) THEN [raised |-> FALSE, img |-> img]
    ELSE LET context == GetContextFromAlt(img.alt)
             image_paths == DownloadImages(context, crawl)
         IN IF image_paths.raised THEN [raised |-> TRUE, img |-> img]
            ELSE IF image_paths.paths # <<>>
            THEN [raised |-> FALSE,
                  img |-> [img EXCEPT !.src = image_paths.paths[1],
                                      !.class = ImgClass(img.alt)]]
            ELSE [raised |-> FALSE, img |-> img]

\* The alt texts of the images, and the pages: up to two images, each with
\* what its download meets.
Alts == {<<>>, <<" ">>, <<"Company", " ", "logo">>, <<"Image", " ", "of", " ", "Company">>}
Pages == UNION {[1..n -> [alt : Alts, crawl : Crawls]] : n \in 0..MaxImages}

\* _clean_html on the images of a page: the images as returned, and whether
\* the cleaner raised.
CleanImages(page) ==
    LET each == [i \in 1..Len(page) |-> CleanImg(Img(page[i].alt), page[i].crawl)]
    IN [raised |-> \E i \in 1..Len(page) : each[i].raised,
        imgs |-> [i \in 1..Len(page) |-> each[i].img]]

CallCleanHtml(page) ==
    /\ bench' = [fn |-> "_clean_html", arg |-> page, out |-> CleanImages(page)]
    /\ UNCHANGED <<store, rcache, req, shot>>

(***************************************************************************)
(* Construction: the API keys                                              *)
(***************************************************************************)
\* GEMINI_API_KEY1 .. GEMINI_API_KEY3 (range(1, 4), line 170).
NumKeys == 3

\* What the environment holds for a key: nothing (or the empty string), a
\* key genai initialises with, or a key whose initialisation raises.
KeyKinds == {"unset", "good", "bad"}
Environments == [1..NumKeys -> KeyKinds]

\* api_keys after the filter of line 172: the numbers of the set keys in
\* ascending order, those from i on.
RECURSIVE ApiKeys(_, _)
ApiKeys(env, i) ==
    IF i > NumKeys THEN <<>>
    ELSE (IF env[i] = "unset" THEN <<>> ELSE <<i>>) \o ApiKeys(env, i + 1)

\* The loop of lines 177-185 over the keys still to try, continuing after
\* a success, so that the last good key is the one configured.
RECURSIVE TryKeysAll(_, _, _, _)
TryKeysAll(env, api_keys, tried, model) ==
    IF api_keys = <<>>
    THEN [raised |-> IF model = 0 THEN "Failed to initialize with all available API keys."
                     ELSE "",
          model |-> model, tried |-> tried]
    ELSE LET api_key == Head(api_keys)
         IN TryKeysAll(env, Tail(api_keys), Append(tried, api_key),
                       IF env[api_key] = "good" THEN api_key ELSE model)

\* The loop of lines 177-185: the first key that initialises is kept and
\* the method returns; after the last failure, ValueError (line 187).
RECURSIVE TryKeys(_, _, _, _)
TryKeys(env, api_keys, tried, model) ==
    IF api_keys = <<>>
    THEN [raised |-> "Failed to initialize with all available API keys.",
          model |-> model, tried |-> tried]
    ELSE LET api_key == Head(api_keys)
         IN IF env[api_key] = "good"
            THEN [raised |-> "", model |-> api_key, tried |-> Append(tried, api_key)]
            ELSE TryKeys(env, Tail(api_keys), Append(tried, api_key), model)

\* WebsiteGenerator._initialize_api (lines 166-187) with self.model None
\* (0) before it: what it raised, the key self.model was made with, and
\* the keys genai.configure was called with, in order.
InitializeApi(env) ==
    IF ApiKeys(env, 1) = <<>>
    THEN [raised |-> "No API keys configured.", model |-> 0, tried |-> <<>>]
    ELSE TryKeys(env, ApiKeys(env, 1), <<>>, 0)

\* WebsiteGenerator() constructed in an environment (lines 155-164).
CallInitializeApi(env) ==
    /\ bench' = [fn |-> "_initialize_api", arg |-> env, out |-> InitializeApi(env)]
    /\ UNCHANGED <<store, rcache, req, shot>>

(***************************************************************************)
(* Specifications                                                          *)
(***************************************************************************)
\* The steps of the HTTP surface for clients Cl with session keys SK sending
\* descriptions DS.  serial: requests for one session follow each other (the
\* case the design assumes) instead of overlapping.
Step(Cl, SK, DS, serial) ==
    \/ \E c \in Cl, sk \in SK, prompt \in DS, reset \in BOOLEAN, apiOK \in BOOLEAN :
          /\ serial => NoOverlap(c, SessionId(sk))
          /\ ProcessPrompt(c, sk, prompt, reset, apiOK)
    \/ \E c \in Cl :
          /\ req[c].pc = "model"
          /\ \E out \in Outcomes(req[c].gprompt.kind) : ModelCall(c, out)
    \/ \E c \in Cl, sk \in SK :
          /\ serial => NoOverlap(c, SessionId(sk))
          /\ ResetGeneration(c, sk)
    \/ \E c \in Cl, sk \in SK : GetGenerationState(c, sk)

\* Direct calls of the generator with the prompts PS.
Direct(Cl, PS) == \E c \in Cl, p \in PS : GenerateContent(c, p)

\* Direct calls of the CSS phase with the descriptions DS.
DirectCss(Cl, DS) == \E c \in Cl, d \in DS : GenerateCss(c, d)

\* One client without a session key, whose requests follow each other, its
\* direct calls of the generator and of the CSS phase, and pauses of a full
\* cache timeout between requests.
Next ==
    \/ Step({1}, {None}, {"", "bakery"}, TRUE)
    \/ Direct({1}, {EmptyPrompt, CssPrompt})
    \/ DirectCss({1}, {"bakery"})
    \/ Tick(CACHE_TIMEOUT)

Spec == Init /\ [][Next]_vars

\* Step for requests that do not send reset=true, served by a generator
\* that finds its API key, with a model whose answers are decisive.
Requests(Cl, SK, DS, serial) ==
    \/ \E c \in Cl, sk \in SK, prompt \in DS :
          /\ serial => NoOverlap(c, SessionId(sk))
          /\ ProcessPrompt(c, sk, prompt, FALSE, TRUE)
    \/ \E c \in Cl :
          /\ req[c].pc = "model"
          /\ \E out \in Decisive(req[c].gprompt.kind) : ModelCall(c, out)
    \/ \E c \in Cl, sk \in SK :
          /\ serial => NoOverlap(c, SessionId(sk))
          /\ ResetGeneration(c, sk)
    \/ \E c \in Cl, sk \in SK : GetGenerationState(c, sk)

\* Two sessions, the keyless one and the one with key "A", whose requests
\* follow each other.
NextSessions == Requests({1}, SessionKeys, {"bakery"}, TRUE)

SpecSessions == Init /\ [][NextSessions]_vars

\* Two clients without a session key, whose requests follow each other.
NextKeyless == Requests(Clients, {None}, {"bakery"}, TRUE)

SpecKeyless == Init /\ [][NextKeyless]_vars

\* Two clients of the keyless session whose requests overlap: the views
\* take no lock between cache.get and cache.set.  Client 1 sends when no
\* request is in flight, client 2 while the request of client 1 is.
\* The model either raises or answers with an acceptable text.
NextRace ==
    \/ /\ req[2].pc # "model"
       /\ ProcessPrompt(1, None, "bakery", FALSE, TRUE)
    \/ /\ req[1].pc = "model"
       /\ ProcessPrompt(2, None, "bakery", FALSE, TRUE)
    \/ \E c \in Clients :
          /\ req[c].pc = "model"
          /\ \E out \in Decisive(req[c].gprompt.kind) : ModelCall(c, out)

SpecRace == Init /\ [][NextRace]_vars

\* Expiry: client 1 advances the keyless session and the model answers every
\* call acceptably, client 2 reads the state, nobody resets, and time passes
\* TickSeconds at a time.
NextTTL ==
    \/ ProcessPrompt(1, None, "bakery", FALSE, TRUE)
    \/ /\ req[1].pc = "model"
       /\ \E out \in {o \in Outcomes(req[1].gprompt.kind) : AttemptOk(o)} :
             ModelCall(1, out)
    \/ GetGenerationState(2, None)
    \/ Tick(TickSeconds)

SpecTTL == Init /\ [][NextTTL]_vars

\* One-shot mode: calls of generate_website follow each other; the worker
\* threads take their tasks in any order.
NextOneShot ==
    \/ \E description \in {"", "bakery"} : GenerateWebsite(description)
    \/ \E t \in PhaseNames : TaskStart(t)
    \/ \E t \in PhaseNames :
          /\ shot.task[t].pc = "model"
          /\ \E out \in Outcomes(shot.task[t].gprompt.kind) : TaskCall(t, out)
    \/ SubmitTrio
    \/ Gather

SpecOneShot == Init /\ [][NextOneShot]_vars

\* One direct call of a helper on any text or input within the bounds; the
\* helpers keep nothing between calls.
NextHelpers ==
    \/ /\ bench = NoCall
       /\ \E css \in Texts(CssPieces) : CallCleanCss(css)
    \/ /\ bench = NoCall
       /\ \E js \in Texts(JsPieces) : CallCleanJs(js)
    \/ /\ bench = NoCall
       /\ \E page \in Pages : CallCleanHtml(page)
    \/ /\ bench = NoCall
       /\ \E alt_text \in AltTexts : CallGetContextFromAlt(alt_text)
    \/ /\ bench = NoCall
       /\ \E env \in Environments : CallInitializeApi(env)
SpecHelpers == Init /\ [][NextHelpers]_vars

\* A model that may also never answer: one client advances the keyless
\* session; a call that has been entered either returns or hangs, and a
\* request whose call hangs takes no further step.  Whatever can happen
\* does happen eventually.
NextHang ==
    \/ ProcessPrompt(1, None, "bakery", FALSE, TRUE)
    \/ /\ req[1].pc = "model"
       /\ req[1].out # Hangs
       /\ \E out \in Decisive(req[1].gprompt.kind) : ModelCall(1, out)
    \/ ModelHangs(1)

\* Direct calls of _generate_content with a prompt of two chunks (the
\* structure prompt for the long description) and with a short one; cache
\* entries expire.
NextChunks ==
    \/ Direct({1}, {StructurePrompt("long"), CssPrompt})
    \/ /\ req[1].pc = "model"
       /\ \E out \in Outcomes(req[1].gprompt.kind) : ModelCall(1, out)
    \/ Tick(CACHE_TIMEOUT)

SpecChunks == Init /\ [][NextChunks]_vars

SpecHang == Init /\ [][NextHang]_vars /\ WF_vars(NextHang)

(***************************************************************************)
(* Vocabulary of the properties                                            *)
(***************************************************************************)
Assets == {"structure", "html", "css", "js"}

\* A field of a stored state, {} standing for the state nothing was done to.
Field(d, f) == IF d = EmptyDict THEN AsDict(GenerationState)[f] ELSE d[f]

Populated(d, f) ==
    IF f = "structure" THEN Field(d, f) # None ELSE Field(d, f) # EmptyText

\* The phase that fills a field.
PhaseOf(f) ==
    CASE f = "structure" -> "analyze_structure"
      [] f = "html" -> "generate_html"
      [] f = "css" -> "generate_css"
      [] f = "js" -> "generate_js"

\* The first unpopulated field in the order structure, html, css, js decides.
ExpectedPhase(d) ==
    IF ~Populated(d, "structure") THEN "analyze_structure"
    ELSE IF ~Populated(d, "html") THEN "generate_html"
    ELSE IF ~Populated(d, "css") THEN "generate_css"
    ELSE IF ~Populated(d, "js") THEN "generate_js"
    ELSE "final_output"

\* The calls of advance: requests that got as far as process_generation's
\* choice of the phase.
IsAdvance(r) == r.op = "process_prompt" /\ r.phase # "none"
Returned(r) == IsAdvance(r) /\ r.pc = "done"

(***************************************************************************)
(* C1.  A call of advance runs at most one phase, and which one depends    *)
(* only on the populated fields of the state it was given, in the order    *)
(* structure, html, css, js; a call on the empty state sets at most        *)
(* structure and never html.                                               *)
(***************************************************************************)
C1_OnePhaseInOrder ==
    \A c \in Clients :
        LET r == req[c]
        IN IsAdvance(r) =>
             /\ r.phase = ExpectedPhase(r.loaded)
             /\ Returned(r) =>
                  /\ \A f \in Assets :
                        Field(r.state, f) # Field(r.loaded, f) => r.phase = PhaseOf(f)
                  /\ (\A f \in Assets : ~Populated(r.loaded, f)) =>
                        \A f \in Assets \ {"structure"} : ~Populated(r.state, f)

C1_Witness ==
    \E c \in Clients :
        /\ Returned(req[c])
        /\ req[c].phase = "generate_css"
        /\ Populated(req[c].state, "css")
        /\ ~Populated(req[c].state, "js")

\* _generate_content returned content to the phase (from the model or from
\* the cache).
Generated(r) == r.gen \in {"ok", "hit"}

(***************************************************************************)
(* C2.  With every generator call succeeding, four calls in a row from the *)
(* empty state give: structure set, progress 25, html empty; progress 50,  *)
(* html non-empty; progress 75, css non-empty; progress 100 and            *)
(* completed=true.  Stated for the k-th call of such a run: the call on    *)
(* the state that k-1 successful phases lead to, whose own phase succeeds. *)
(***************************************************************************)
C2_FourCallScenario ==
    \A c \in Clients :
        LET r == req[c]
            in == r.loaded
            out == r.state
        IN (Returned(r) /\ Generated(r) /\ r.result = "success"
              /\ Field(in, "errors") = <<>>) =>
             /\ (\A f \in Assets : ~Populated(in, f)) =>
                   /\ Populated(out, "structure")
                   /\ out.progress = 25
                   /\ ~Populated(out, "html")
             /\ (Field(in, "progress") = 25 /\ ExpectedPhase(in) = "generate_html") =>
                   out.progress = 50 /\ Populated(out, "html")
             /\ (Field(in, "progress") = 50 /\ ExpectedPhase(in) = "generate_css") =>
                   out.progress = 75 /\ Populated(out, "css")
             /\ (Field(in, "progress") = 75 /\ ExpectedPhase(in) = "generate_js") =>
                   out.progress = 100 /\ r.completed

(***************************************************************************)
(* C3.  A call on a state with structure, html, css and js populated makes *)
(* no generator call, and the state it returns and persists has            *)
(* completed=true.                                                         *)
(***************************************************************************)
C3_FinalStateCompleted ==
    \A c \in Clients :
        LET r == req[c]
        IN (Returned(r) /\ \A f \in Assets : Populated(r.loaded, f)) =>
             /\ r.calls = 0
             /\ r.rcReads = 0
             /\ r.state.completed

(***************************************************************************)
(* C4.  A phase whose generator call fails after its retries returns the   *)
(* state with structure, html, css, js, components and progress as they    *)
(* were loaded and with a longer errors list, and the state it returns     *)
(* selects the same phase again.                                           *)
(***************************************************************************)
C4_FailedPhaseKeepsState ==
    \A c \in Clients :
        LET r == req[c]
        IN (Returned(r) /\ r.gen = "failed") =>
             /\ \A f \in Assets \cup {"components", "progress"} :
                   Field(r.state, f) = Field(r.loaded, f)
             /\ Len(r.state.errors) > Len(Field(r.loaded, "errors"))
             /\ SubSeq(r.state.errors, 1, Len(Field(r.loaded, "errors")))
                   = Field(r.loaded, "errors")
             /\ ExpectedPhase(r.state) = r.phase
             /\ r.phase \in PhaseNames

C4_Witness ==
    \E c \in Clients :
        /\ Returned(req[c])
        /\ req[c].gen = "failed"
        /\ req[c].phase = "generate_css"
        /\ req[c].calls = MAX_RETRIES
        /\ Populated(req[c].state, "html")

(***************************************************************************)
(* C5.  As claimed: a call of advance on a state whose html and css are    *)
(* empty fails with the sequence error "HTML must be generated before      *)
(* CSS" without a model call, and changes nothing in the state but errors. *)
(***************************************************************************)
SequenceError == "HTML must be generated before CSS"

\* s is in the sequence es.
Has(es, s) == \E i \in 1..Len(es) : es[i] = s

C5_AdvanceRejectsCssBeforeHtml ==
    \A c \in Clients :
        LET r == req[c]
        IN (Returned(r) /\ ~Populated(r.loaded, "html")
                        /\ ~Populated(r.loaded, "css")) =>
             /\ r.calls = 0
             /\ Has(r.state.errors, SequenceError)
             /\ \A f \in Assets \cup {"components", "progress", "warnings"} :
                   Field(r.state, f) = Field(r.loaded, f)

(***************************************************************************)
(* C5, amended.  The sequence error belongs to the CSS phase, not to       *)
(* advance.  generate_css entered on a state whose html is empty appends   *)
(* "HTML must be generated before CSS" to errors and returns an error      *)
(* without a cache lookup or a model call and without changing any other  *)
(* field.  advance never enters the CSS phase on such a state: with html   *)
(* empty it runs structure analysis or the HTML phase, and no state it     *)
(* returns carries the sequence error.                                     *)
(***************************************************************************)
C5_SequenceErrorOnlyInCssPhase ==
    \A c \in Clients :
        LET r == req[c]
        IN /\ (r.op = "generate_css" /\ ~Populated(r.loaded, "html")) =>
                 /\ r.pc = "done"
                 /\ r.result = "error"
                 /\ r.calls = 0
                 /\ r.rcReads = 0 /\ r.rcWrites = 0 /\ r.stWrites = 0
                 /\ r.gs = AddError(LoadState(r.loaded), SequenceError)
           /\ IsAdvance(r) =>
                 /\ ~Populated(r.loaded, "html") =>
                       r.phase \in {"analyze_structure", "generate_html"}
                 /\ ~Has(r.gs.errors, SequenceError)

C5_Witness ==
    \E c \in Clients :
        /\ req[c].op = "generate_css"
        /\ req[c].pc = "done"
        /\ Has(req[c].gs.errors, SequenceError)
        /\ CssPrompt \notin DOMAIN rcache
        /\ "default" \in DOMAIN store
        /\ Populated(store["default"].val, "structure")

(***************************************************************************)
(* C6.  Without reset and expiry the persisted state of a session only     *)
(* moves forward: a populated field among structure, html, css, js keeps   *)
(* its value in every later persisted state, and progress never decreases. *)
(***************************************************************************)
\* The step ends a request that started from the empty state on demand.
ResetStep ==
    \E c \in Clients :
        /\ req'[c] # req[c]
        /\ req'[c].pc = "done"
        /\ req'[c].op = "reset_generation" \/ req'[c].reset

MovesForward(d, e) ==
    /\ \A f \in Assets : Populated(d, f) => Field(e, f) = Field(d, f)
    /\ Field(e, "progress") >= Field(d, "progress")

C6_Monotonic ==
    [][\A sid \in DOMAIN store :
          (sid \in DOMAIN store' /\ ~ResetStep) =>
              MovesForward(store[sid].val, store'[sid].val)]_vars

C6_Witness ==
    \E c \in Clients :
        /\ Returned(req[c])
        /\ ~req[c].reset
        /\ req[c].phase = "generate_js"
        /\ req[c].result = "success"
        /\ Populated(req[c].loaded, "css")
        /\ store[req[c].sid].val = req[c].state

(***************************************************************************)
(* C7.  Repeated calls walk the machine to completed=true, one phase for   *)
(* every call whose generator call succeeded, and a call on the completed  *)
(* state runs no generator phase.  The part a finite run decides: a call   *)
(* whose generator call succeeded has populated the field of its phase.    *)
(***************************************************************************)
C7_EveryGeneratedCallAdvances ==
    \A c \in Clients :
        LET r == req[c]
        IN /\ (Returned(r) /\ Generated(r)) =>
                 \E f \in Assets :
                    /\ r.phase = PhaseOf(f)
                    /\ ~Populated(r.loaded, f)
                    /\ Populated(r.state, f)
           /\ (Returned(r) /\ r.completed) => r.calls = 0 /\ r.rcReads = 0

(***************************************************************************)
(* C8.  For a non-empty uncached prompt under the chunk threshold the      *)
(* generator returns the text of the first attempt that has one of at      *)
(* least MIN_CONTENT_LENGTH characters (as the code measures it, without   *)
(* surrounding whitespace), and raises after exactly MAX_RETRIES calls     *)
(* when there is none; it never returns a shorter text and never calls     *)
(* the model more than MAX_RETRIES times.                                  *)
(***************************************************************************)
\* The response is present and long enough.
Acceptable(out) == out.type = "text" /\ out.text.n >= MIN_CONTENT_LENGTH

C8_RetryContract ==
    \A c \in Clients :
        LET r == req[c]
        IN (r.gprompt # None /\ r.gen \in {"miss", "ok", "failed"}
              /\ PromptLen(r.gprompt) <= CHUNK_SIZE) =>
             /\ r.calls <= MAX_RETRIES
             /\ r.gen = "miss" =>
                   /\ r.pc = "model"
                   /\ r.calls = r.attempt
                   /\ r.calls > 0 => ~Acceptable(r.out)
             /\ r.gen = "ok" =>
                   /\ Acceptable(r.out)
                   /\ r.calls = r.attempt + 1
                   /\ r.content = [b |-> r.out.text.b, n |-> r.out.text.n]
                   /\ r.content.n >= MIN_CONTENT_LENGTH
             /\ r.gen = "failed" =>
                   /\ r.calls = MAX_RETRIES
                   /\ ~Acceptable(r.out)

C8_Witness ==
    \E c \in Clients :
        /\ req[c].pc = "done"
        /\ req[c].gen = "ok"
        /\ req[c].calls = 2
        /\ PromptLen(req[c].gprompt) <= CHUNK_SIZE

(***************************************************************************)
(* C9.  The response cache is an optimisation only: a prompt whose entry   *)
(* has not expired is answered with the cached text and without a model    *)
(* call; a miss is no error and starts a normal generation; a failed       *)
(* generation writes nothing, and what is written is the text returned.    *)
(***************************************************************************)
C9_CacheOnlyOptimises ==
    [][\A c \in Clients :
          LET r == req[c]
              q == req'[c]
          IN (q # r /\ q.gprompt # None /\ PromptLen(q.gprompt) > 0) =>
               /\ (r.pc # "model" /\ q.gprompt \in DOMAIN rcache) =>
                     /\ q.pc = "done"
                     /\ q.gen = "hit"
                     /\ q.calls = 0
                     /\ q.content = rcache[q.gprompt].val
                     /\ rcache' = rcache
               /\ (r.pc # "model" /\ q.gprompt \notin DOMAIN rcache) =>
                     /\ q.pc = "model"
                     /\ q.gen = "miss"
                     /\ q.gs.errors = Field(q.loaded, "errors")
                     /\ rcache' = rcache
               /\ q.gen = "failed" => rcache' = rcache
               /\ rcache' # rcache =>
                     /\ q.gen = "ok"
                     /\ rcache' = WrittenBy(CacheSet(rcache, q.gprompt, q.content),
                                            q.gprompt, q.sid)]_vars

C9_Witness ==
    \E c \in Clients :
        /\ req[c].pc = "done"
        /\ req[c].gen = "hit"
        /\ req[c].op = "process_prompt"
        /\ req[c].result = "success"

(***************************************************************************)
(* C10.  The empty prompt is refused before anything else happens: POST    *)
(* /process-prompt/ answers 400 without a model call and without touching  *)
(* the response cache or the session store, reset or not; _generate_content*)
(* refuses it before the cache lookup and before any model call.           *)
(***************************************************************************)
Untouched(q) ==
    /\ q.pc = "done"
    /\ q.calls = 0
    /\ q.rcReads = 0 /\ q.rcWrites = 0
    /\ q.stReads = 0 /\ q.stWrites = 0
    /\ store' = store
    /\ rcache' = rcache

C10_EmptyPromptRefused ==
    [][\A c \in Clients :
          LET q == req'[c]
          IN q # req[c] =>
               /\ (q.op = "process_prompt" /\ q.prompt = "") =>
                     Untouched(q) /\ q.http = 400 /\ q.status = "error"
               /\ (q.op = "generate" /\ q.gprompt = EmptyPrompt) =>
                     Untouched(q) /\ q.gen = "invalid"]_vars

C10_Witness ==
    \E c \in Clients :
        /\ req[c].op = "process_prompt"
        /\ req[c].prompt = ""
        /\ req[c].reset
        /\ req[c].http = 400
        /\ "default" \in DOMAIN store
        /\ Populated(store["default"].val, "html")

(***************************************************************************)
(* C11.  A reset request leaves the session without a persisted state,     *)
(* also after the run was completed, and the next advance call of the      *)
(* session starts from the empty state: it runs structure analysis, and    *)
(* the state it returns has html, css and js empty, no warnings, and only  *)
(* the errors this call itself added.                                      *)
(***************************************************************************)
\* The errors lists a structure phase can leave when it started without any.
FreshErrors ==
    {<<>>, <<PhaseError("analyze_structure")>>,
     <<"Content generation failed", PhaseError("analyze_structure")>>}

C11_ResetStartsOver ==
    [][\A c \in Clients :
          LET r == req[c]
              q == req'[c]
          IN q # r =>
               /\ q.op = "reset_generation" => q.sid \notin DOMAIN store'
               /\ (r.op = "reset_generation" /\ r.pc = "done"
                     /\ IsAdvance(q) /\ q.sid = r.sid) =>
                     /\ q.loaded = EmptyDict
                     /\ q.phase = "analyze_structure"
               /\ (Returned(q) /\ q.loaded = EmptyDict) =>
                     /\ \A f \in {"html", "css", "js"} : ~Populated(q.state, f)
                     /\ q.state.warnings = <<>>
                     /\ q.state.errors \in FreshErrors]_vars

\* An advance call that found no persisted state although the whole run had
\* been generated (its answers are still in the response cache) and the
\* request itself did not ask for a reset: the state was reset before it.
C11_Witness ==
    \E c \in Clients :
        /\ Returned(req[c])
        /\ ~req[c].reset
        /\ req[c].loaded = EmptyDict
        /\ req[c].phase = "analyze_structure"
        /\ req[c].gen = "hit"
        /\ JsPrompt \in DOMAIN rcache
        /\ Populated(req[c].state, "structure")

(***************************************************************************)
(* C12.  Sessions are isolated by key in the session store: a request of   *)
(* process-prompt, reset-generation or get-generation-state for one        *)
(* session neither creates, changes nor deletes the persisted state of     *)
(* another session.                                                        *)
(***************************************************************************)
C12_StoreIsolated ==
    [][\A c \in Clients :
          req'[c] # req[c] =>
             \A sid \in (DOMAIN store \cup DOMAIN store') \ {req'[c].sid} :
                /\ sid \in DOMAIN store
                /\ sid \in DOMAIN store'
                /\ store'[sid] = store[sid]]_vars

C12_Witness ==
    \E c \in Clients :
        /\ Returned(req[c])
        /\ req[c].sid = "A"
        /\ req[c].phase = "generate_html"
        /\ req[c].result = "success"
        /\ "default" \in DOMAIN store
        /\ Populated(store["default"].val, "js")
        /\ ~Populated(store["A"].val, "css")

(***************************************************************************)
(* C13.  Only the session store is shared between sessions: what an        *)
(* advance call returns for a session and the number of model calls it     *)
(* makes do not depend on what other sessions did before.  A call that is  *)
(* answered from the response cache makes no model call, where the same    *)
(* call without the entry makes one; so the claim requires that a call is  *)
(* only ever answered from an entry its own session has written.           *)
(***************************************************************************)
C13_NoInfluenceAcrossSessions ==
    [][\A c \in Clients :
          LET r == req[c]
              q == req'[c]
          IN (q # r /\ r.pc # "model" /\ IsAdvance(q) /\ q.gen = "hit") =>
               rcache[q.gprompt].by = q.sid]_vars

(***************************************************************************)
(* C14.  Two advance calls of one session that overlap are not serialised: *)
(* a call that starts while another is in flight on the state still in the *)
(* store loads that same state and runs the same phase; each call persists *)
(* the whole state it computed from what it loaded, so the store holds     *)
(* exactly the state of the call that persisted last and never a mix.      *)
(***************************************************************************)
\* What cache.get(cache_key, {}) finds for the session.
Stored(sid) == IF sid \in DOMAIN store THEN store[sid].val ELSE EmptyDict

\* The states the phase of request q can return for the state q loaded.
ResultsOnLoaded(q) ==
    {AsDict(PhasePost(LoadState(q.loaded), q.phase, q.content).gs),
     AsDict(PhaseGenFail(LoadState(q.loaded), q.phase).gs)}

C14_LastWriteWins ==
    [][\A c \in Clients :
          LET r == req[c]
              q == req'[c]
          IN q # r =>
               /\ (IsAdvance(q) /\ r.pc # "model") =>
                     \A o \in Clients \ {c} :
                        (req[o].pc = "model" /\ req[o].sid = q.sid
                            /\ req[o].loaded = Stored(q.sid)) =>
                           /\ q.loaded = req[o].loaded
                           /\ q.phase = req[o].phase
               /\ (Returned(q) /\ q.phase \in PhaseNames) =>
                     /\ store'[q.sid].val = q.state
                     /\ q.state \in ResultsOnLoaded(q)]_vars

\* Both calls ran the HTML phase on the same loaded state with different
\* answers; the store holds the state of client 2, the other page is lost.
C14_Witness ==
    /\ Returned(req[1]) /\ Returned(req[2])
    /\ req[1].sid = req[2].sid
    /\ req[1].loaded = req[2].loaded
    /\ req[1].phase = "generate_html" /\ req[2].phase = "generate_html"
    /\ req[1].result = "success" /\ req[2].result = "success"
    /\ req[1].state # req[2].state
    /\ store[req[2].sid].val = req[2].state

\* A step in which only time passes: no request moves and nothing has just
\* been written to the session store.
TimePasses ==
    /\ req' = req
    /\ \A sid \in DOMAIN store' : store'[sid].age # 0

(***************************************************************************)
(* C15.  A persisted state is absent once CACHE_TIMEOUT seconds (one hour) *)
(* have passed since process-prompt last wrote it: get-generation-state    *)
(* then returns the empty object and the next advance call starts from the *)
(* empty state.  Every persist of process-prompt restarts the hour;        *)
(* reading the state does not.                                             *)
(***************************************************************************)
C15_ExpiresAfterAnHour ==
    [][/\ \A sid \in DOMAIN store : store[sid].age < CACHE_TIMEOUT
       /\ TimePasses =>
             \A sid \in DOMAIN store :
                IF store[sid].age + TickSeconds >= CACHE_TIMEOUT
                THEN sid \notin DOMAIN store'
                ELSE /\ sid \in DOMAIN store'
                     /\ store'[sid].val = store[sid].val
                     /\ store'[sid].age = store[sid].age + TickSeconds
       /\ \A c \in Clients :
             LET r == req[c]
                 q == req'[c]
             IN q # r =>
                  /\ (q.op = "get_generation_state" /\ q.sid \notin DOMAIN store) =>
                        q.state = EmptyDict
                  /\ (q.op = "get_generation_state" /\ q.sid \in DOMAIN store) =>
                        q.state = store[q.sid].val
                  /\ q.op = "get_generation_state" => store' = store
                  /\ (IsAdvance(q) /\ r.pc # "model" /\ q.sid \notin DOMAIN store) =>
                        q.loaded = EmptyDict /\ q.phase = "analyze_structure"
                  /\ Returned(q) =>
                        store'[q.sid] = [val |-> q.state, age |-> 0]]_vars

\* Client 2 has read a state with html; nobody reset it, and the latest
\* advance call of client 1 found no state and ran structure analysis.
C15_Witness ==
    /\ req[2].op = "get_generation_state"
    /\ Populated(req[2].state, "html")
    /\ Returned(req[1])
    /\ req[1].loaded = EmptyDict
    /\ req[1].phase = "analyze_structure"

(***************************************************************************)
(* C16.  In one-shot mode none of the HTML, CSS and JS tasks is started    *)
(* before structure analysis has returned; when structure analysis returns *)
(* an error none of the three is ever started and the call returns an      *)
(* error result.                                                           *)
(***************************************************************************)
C16_StructureBeforeTrio ==
    LET structure == shot.task["analyze_structure"]
    IN /\ \A t \in Trio :
             shot.task[t].pc # "new" =>
                structure.pc = "done" /\ structure.status = "success"
       /\ (structure.pc = "done" /\ structure.status = "error") =>
             /\ shot.pc \in {"structure", "done"}
             /\ \A t \in Trio : shot.task[t] = NewTask
             /\ shot.pc = "done" =>
                   /\ shot.output.status = "error"
                   /\ shot.gs.html = EmptyText

\* A call has returned its error result after the model failed structure
\* analysis MAX_RETRIES times.
C16_Witness ==
    /\ shot.pc = "done"
    /\ shot.description = "bakery"
    /\ shot.task["analyze_structure"].status = "error"
    /\ shot.task["analyze_structure"].calls = MAX_RETRIES
    /\ shot.output.status = "error"

(***************************************************************************)
(* C17.  In one-shot mode, once structure analysis has succeeded, any one  *)
(* of the HTML, CSS and JS tasks may fail without causing another to fail: *)
(* the CSS task and the JS task fail only when their own generation fails  *)
(* (some call of the model was made for them and did not yield acceptable  *)
(* content), whatever the HTML task did.                                   *)
(***************************************************************************)
C17_CssAndJsFailOnTheirOwn ==
    \A t \in {"generate_css", "generate_js"} :
       (shot.task[t].pc = "done" /\ shot.task[t].status = "error") =>
          shot.task[t].calls > 0

\* The structure phase of request r has got a content from the generator.
StructureContent(r) ==
    /\ Returned(r)
    /\ r.phase = "analyze_structure"
    /\ r.gen \in {"ok", "hit"}

\* The phase succeeded with the default structure.
DefaultStructureSet(r) ==
    /\ r.result = "success"
    /\ r.state.structure = StructureAsDict(WebsiteStructure(DefaultData))
    /\ r.state.progress = 25

C19_MissingKeysGiveDefault ==
    \A c \in Clients :
        LET r == req[c]
            parsed == JsonLoads(r.content.b)
        IN (/\ StructureContent(r)
            /\ parsed.ok
            /\ ~RequiredKeysPresent(parsed.data)) =>
              /\ DefaultStructureSet(r)
              /\ Populated(r.state, "structure")

\* The components the structure of state d names that are no tag of its html.
MissingComponents(d) ==
    {d.structure.components[i] : i \in 1..Len(d.structure.components)}
        \ {AllTags(d.html.b)[i] : i \in 1..Len(AllTags(d.html.b))}

(***************************************************************************)
(* C20.  After a successful HTML phase, whenever structure.components      *)
(* names a component that is no tag of the cleaned HTML just generated,    *)
(* warnings contains a missing-components entry; the phase still succeeds  *)
(* with html set and progress 50.                                          *)
(***************************************************************************)
C20_MissingComponentsWarned ==
    \A c \in Clients :
        LET r == req[c]
        IN (Returned(r) /\ r.phase = "generate_html" /\ r.result = "success") =>
              /\ Populated(r.state, "html")
              /\ r.state.progress = 50
              /\ MissingComponents(r.state) # {} =>
                    Has(r.state.warnings, "Missing components")

(***************************************************************************)
(* C21.  Every user-visible failure of POST /process-prompt/ is answered   *)
(* with status "error": a call whose phase failed (generator retries       *)
(* exhausted, empty description, sequence error) is not answered with      *)
(* status "success".                                                       *)
(***************************************************************************)
C21_FailedPhaseAnswersError ==
    \A c \in Clients :
        LET r == req[c]
        IN (r.op = "process_prompt" /\ r.pc = "done") =>
              /\ r.http # 200 => r.status = "error"
              /\ (IsAdvance(r) /\ r.result = "error") => r.status = "error"

(***************************************************************************)
(* C22.  Every advance call terminates even when a call of the external    *)
(* model never returns: a request that waits for the model eventually gets *)
(* its answer.                                                             *)
(***************************************************************************)
C22_AdvanceTerminates ==
    \A c \in Clients : (req[c].pc = "model") ~> (req[c].pc = "done")

(***************************************************************************)
(* C23.  A prompt longer than CHUNK_SIZE is generated chunk by chunk, in   *)
(* order: every chunk has its own budget of MAX_RETRIES attempts, the      *)
(* acceptable answer of a chunk is appended to the answers of the chunks   *)
(* before it, and the text returned (and cached) is the concatenation for  *)
(* all chunks.  When a chunk uses up its attempts the call fails at once:  *)
(* no later chunk is generated and nothing is cached.                      *)
(***************************************************************************)
C23_ChunkedGeneration ==
    [][\A c \in Clients :
          LET r == req[c]
              q == req'[c]
              n == NumChunks(q.gprompt)
          IN (q # r /\ q.op = "generate" /\ PromptLen(q.gprompt) > CHUNK_SIZE) =>
               /\ n * CHUNK_SIZE >= PromptLen(q.gprompt)
               /\ (n - 1) * CHUNK_SIZE < PromptLen(q.gprompt)
               /\ (r.pc # "model" /\ q.gen = "miss") =>
                     /\ q.pc = "model" /\ q.chunk = 1 /\ q.attempt = 0
                     /\ q.calls = 0 /\ q.content = EmptyText
               /\ r.pc = "model" =>
                     /\ q.calls = r.calls + 1
                     /\ q.calls <= MAX_RETRIES * r.chunk
                     /\ IF Acceptable(q.out)
                        THEN /\ q.content = Concat(r.content, Strip(q.out.text))
                             /\ IF r.chunk < n
                                THEN /\ q.pc = "model" /\ q.chunk = r.chunk + 1
                                     /\ q.attempt = 0
                                     /\ rcache' = rcache
                                ELSE /\ q.pc = "done" /\ q.gen = "ok"
                                     /\ Len(q.content.b) >= n
                                     /\ q.gprompt \in DOMAIN rcache'
                                     /\ rcache'[q.gprompt].val = q.content
                        ELSE /\ q.content = r.content
                             /\ rcache' = rcache
                             /\ IF r.attempt < MAX_RETRIES - 1
                                THEN /\ q.pc = "model" /\ q.chunk = r.chunk
                                     /\ q.attempt = r.attempt + 1
                                ELSE /\ q.pc = "done" /\ q.gen = "failed"
                                     /\ q.chunk = r.chunk
                                     /\ q.gprompt \notin DOMAIN rcache']_vars

\* Both chunks of a prompt needed their third attempt, and the call returned
\* the two answers in order.
C23_Witness ==
    LET r == req[1]
    IN /\ r.op = "generate" /\ r.pc = "done" /\ r.gen = "ok"
       /\ NumChunks(r.gprompt) = 2
       /\ r.calls = 2 * MAX_RETRIES
       /\ r.content.b = <<"json", "prose">>

(***************************************************************************)
(* C24.  When a prompt is split into chunks, a delay lies between every    *)
(* two consecutive chunk generations: whenever the generation of chunk     *)
(* k+1 is under way, k delays have been made.                              *)
(***************************************************************************)
C24_DelayBetweenChunks ==
    \A c \in Clients :
        LET r == req[c]
        IN (r.op = "generate" /\ r.pc = "model" /\ NumChunks(r.gprompt) > 1) =>
              r.delays = r.chunk - 1

(***************************************************************************)
(* C25.  clean_css and clean_js are idempotent: for every input x,         *)
(* clean(clean(x)) = clean(x); a second application adds no further stub   *)
(* or directive.                                                           *)
(***************************************************************************)
C25_CleanersIdempotent ==
    /\ bench.fn = "_clean_css" => CleanCssText(bench.out) = bench.out
    /\ bench.fn = "_clean_js" => CleanJsText(bench.out) = bench.out

(***************************************************************************)
(* C26.  When the post-processing of a cleaner throws, the cleaner returns *)
(* the fence-stripped text instead of raising: the HTML phase whose        *)
(* cleaner threw still succeeds with html set, and nothing is added to     *)
(* errors or warnings.                                                     *)
(***************************************************************************)
C26_CleanerFailureIsNotFatal ==
    \A c \in Clients :
        LET r == req[c]
        IN (/\ Returned(r)
            /\ r.phase = "generate_html"
            /\ r.gen \in {"ok", "hit"}
            /\ CleanHtmlRaises(r.content)) =>
              /\ r.result = "success"
              /\ Populated(r.state, "html")
              /\ r.state.errors = r.loaded.errors
              /\ r.state.warnings = r.loaded.warnings

(***************************************************************************)
(* C27.  Image resolution never fails HTML generation: when the download   *)
(* for an image fails completely (the crawler throws or fetches no file)   *)
(* download_images returns the empty list and raises nothing, the HTML     *)
(* cleaner leaves that image tag as it was sent, and the cleaner returns.  *)
(***************************************************************************)
C27_ImageFailureLeavesTag ==
    bench.fn = "_clean_html" =>
       /\ ~bench.out.raised
       /\ Len(bench.out.imgs) = Len(bench.arg)
       /\ \A i \in 1..Len(bench.arg) :
             LET img == bench.arg[i]
                 got == DownloadImages(GetContextFromAlt(img.alt), img.crawl)
             IN /\ img.crawl \in {"throws", "nothing"} =>
                      /\ got = [raised |-> FALSE, paths |-> <<>>]
                      /\ bench.out.imgs[i] = Img(img.alt)
                /\ (img.crawl \in {"stored", "fetched"} /\ ~IsBlank(img.alt)) =>
                      bench.out.imgs[i].src # Img(img.alt).src

\* A page with two images: the download throws for the first, which stays
\* as sent, and succeeds for the second, which gets its file.
C27_Witness ==
    /\ bench.fn = "_clean_html"
    /\ Len(bench.arg) = 2
    /\ bench.arg[1].crawl = "throws" /\ bench.arg[1].alt = <<"Company", " ", "logo">>
    /\ bench.arg[2].crawl = "fetched" /\ bench.arg[2].alt = <<"Company", " ", "logo">>
    /\ bench.out.imgs[1] = Img(<<"Company", " ", "logo">>)
    /\ bench.out.imgs[2].src = [dir |-> <<"company", " ", "logo">>]

(***************************************************************************)
(* C28.  On construction the generator tries the configured API keys in    *)
(* the order GEMINI_API_KEY1, 2, 3, skipping unset ones; it uses the first *)
(* key whose initialisation succeeds and tries no later key; it fails only *)
(* if no key is configured or every configured key fails to initialise.    *)
(***************************************************************************)
C28_FirstWorkingKey ==
    bench.fn = "_initialize_api" =>
       LET env == bench.arg
           out == bench.out
           configured == {i \in 1..NumKeys : env[i] # "unset"}
           good == {i \in 1..NumKeys : env[i] = "good"}
       IN /\ \A n \in 1..Len(out.tried) : out.tried[n] \in configured
          /\ \A m, n \in 1..Len(out.tried) : m < n => out.tried[m] < out.tried[n]
          /\ good # {} =>
                /\ out.raised = ""
                /\ out.model \in good
                /\ \A i \in good : out.model <= i
                /\ {out.tried[n] : n \in 1..Len(out.tried)}
                      = {i \in configured : i <= out.model}
          /\ good = {} =>
                /\ out.raised # ""
                /\ out.model = 0
                /\ {out.tried[n] : n \in 1..Len(out.tried)} = configured

\* Key 1 fails and keys 2 and 3 are good: 1 and 2 are tried in that order,
\* 2 is used and 3 is never tried.
C28_Witness ==
    /\ bench.fn = "_initialize_api"
    /\ bench.arg = <<"bad", "good", "good">>
    /\ bench.out = [raised |-> "", model |-> 2, tried |-> <<1, 2>>]

(***************************************************************************)
(* C29.  The search context of an alt text is the lower-cased alt text     *)
(* with every word that equals one of the stop-words image, picture,       *)
(* photo, of, the, a, an removed, the remaining words in their original    *)
(* order and joined by single spaces; "Company logo" gives "company logo". *)
(***************************************************************************)
C29_ContextFromAlt ==
    bench.fn = "get_context_from_alt" =>
       LET out == bench.out
           words == SplitWords(bench.arg, <<>>)
           kept == SelectSeq(words, LAMBDA word : ~IsCommon(LowerText(word)))
       IN /\ SplitWords(out, <<>>) = [n \in 1..Len(kept) |-> LowerText(kept[n])]
          /\ out # <<>> => out[1] # " " /\ out[Len(out)] # " "
          /\ \A i \in 1..Len(out) - 1 : ~(out[i] = " " /\ out[i + 1] = " ")
          /\ bench.arg = <<"Company", " ", "logo">> =>
                out = <<"company", " ", "logo">>

\* "Image  ofCompany" (two spaces) gives "ofcompany": "of" is part of a word.
C29_Witness ==
    /\ bench.fn = "get_context_from_alt"
    /\ bench.arg = <<"Image", " ", " ", "of", "Company">>
    /\ bench.out = <<"of", "company">>

(***************************************************************************)
(* C30.  In one-shot mode a CSS or JS task tests html when it starts and    *)
(* does not wait for the HTML task: started while html is still empty it   *)
(* ends with the HTML-required error without a call of the model and       *)
(* stores nothing, whatever the HTML task does later; started with html    *)
(* stored it goes on to its prompt.  So css (js) is non-empty in the final *)
(* output only if the CSS (JS) task started after html had been stored.    *)
(***************************************************************************)
C30_TrioTaskTestsHtmlAtStart ==
    [][\A t \in {"generate_css", "generate_js"} :
          LET k == shot.task[t]
              k2 == shot'.task[t]
          IN /\ (k.pc = "queued" /\ k2.pc # "queued") =>
                   IF NonEmpty(shot.gs.html)
                   THEN k2.gprompt # None
                   ELSE /\ k2 = [k EXCEPT !.pc = "done", !.status = "error",
                                          !.message = "HTML generation required first"]
                        /\ k2.calls = 0
                        /\ k2.gprompt = None
                        /\ Len(shot'.gs.errors) = Len(shot.gs.errors) + 1
                        /\ shot'.gs.css = shot.gs.css
                        /\ shot'.gs.js = shot.gs.js
             /\ (shot'.pc = "done" /\ NonEmpty(shot'.output[IF t = "generate_css" THEN "css" ELSE "js"])) =>
                   /\ k2.gprompt # None
                   /\ NonEmpty(shot'.gs.html)
             /\ k.pc = "done" => k2 = k \/ shot'.pc = "structure"
      ]_vars

\* A call has returned in which the HTML task succeeded after the CSS task
\* and the JS task had been refused: html is in the output, css and js are
\* not.
C30_Witness ==
    /\ shot.pc = "done"
    /\ shot.task["generate_html"].status = "success"
    /\ shot.task["generate_html"].calls > 0
    /\ \A t \in {"generate_css", "generate_js"} :
          /\ shot.task[t].status = "error"
          /\ shot.task[t].calls = 0
          /\ shot.task[t].message = "HTML generation required first"
    /\ NonEmpty(shot.output.html)
    /\ shot.output.css = EmptyText
    /\ shot.output.js = EmptyText

(***************************************************************************)
(* C31.  In one-shot mode, whenever structure analysis succeeded, the run  *)
(* ends with completed = true and progress = 100 whether or not any of the *)
(* HTML, CSS and JS tasks failed; so completed = true does not imply that  *)
(* html, css and js are all non-empty.                                     *)
(***************************************************************************)
C31_OneShotAlwaysCompletes ==
    (shot.pc = "done" /\ shot.task["analyze_structure"].status = "success") =>
       /\ shot.gs.completed = TRUE
       /\ shot.gs.progress = 100
       /\ shot.output.completed = TRUE
       /\ shot.output.progress = 100

\* A run has ended completed with progress 100 although the model failed
\* the HTML task MAX_RETRIES times and nothing but the structure was made.
C31_Witness ==
    /\ shot.pc = "done"
    /\ shot.task["analyze_structure"].status = "success"
    /\ shot.task["generate_html"].status = "error"
    /\ shot.task["generate_html"].calls = MAX_RETRIES
    /\ shot.output.completed = TRUE
    /\ shot.output.progress = 100
    /\ shot.output.status = "error"
    /\ shot.output.html = EmptyText
    /\ shot.output.css = EmptyText
    /\ shot.output.js = EmptyText

\* The populated fields of d, and whether they are the first ones of
\* structure, html, css, js.
PopulatedFields(d) == {f \in Assets : Populated(d, f)}

IsPrefix(fs) ==
    fs \in {{}, {"structure"}, {"structure", "html"}, {"structure", "html", "css"},
            Assets}

(***************************************************************************)
(* C32.  In every persisted state reached from the empty state by advance  *)
(* calls that do not overlap, the populated fields are a prefix of         *)
(* structure, html, css, js, progress is 25 times their number, and so one *)
(* of 0, 25, 50, 75, 100.                                                  *)
(***************************************************************************)
C32_ProgressCountsFields ==
    \A sid \in DOMAIN store :
        LET d == store[sid].val
        IN /\ IsPrefix(PopulatedFields(d))
           /\ Field(d, "progress") = 25 * Cardinality(PopulatedFields(d))
           /\ Field(d, "progress") \in {0, 25, 50, 75, 100}

\* The persisted state after a CSS phase that followed a failed attempt:
\* three fields, progress 75, and the errors of the failure.
C32_Witness ==
    /\ "default" \in DOMAIN store
    /\ PopulatedFields(store["default"].val) = {"structure", "html", "css"}
    /\ store["default"].val.progress = 75
    /\ store["default"].val.errors # <<>>

\* The sequence es begins with the sequence ds.
BeginsWith(es, ds) == Len(ds) <= Len(es) /\ SubSeq(es, 1, Len(ds)) = ds

(***************************************************************************)
(* C33.  The errors list of a session is append-only across advance calls: *)
(* the errors of the state an advance call returns begin with the errors   *)
(* of the state it loaded, a successful phase returns them as they were    *)
(* loaded (in the state and in the list its response is made from), and    *)
(* the persisted list is cut or removed only by a reset or by expiry.      *)
(***************************************************************************)
C33_ErrorsAppendOnly ==
    [][/\ \A c \in Clients :
            LET q == req'[c]
            IN (q # req[c] /\ Returned(q)) =>
                 /\ BeginsWith(q.state.errors, Field(q.loaded, "errors"))
                 /\ q.gs.errors = q.state.errors
                 /\ q.result = "success" =>
                       q.state.errors = Field(q.loaded, "errors")
                 /\ q.sid \in DOMAIN store'
                 /\ store'[q.sid].val.errors = q.state.errors
       /\ \A sid \in DOMAIN store :
            IF sid \in DOMAIN store'
            THEN ResetStep \/ BeginsWith(store'[sid].val.errors, store[sid].val.errors)
            ELSE ResetStep \/ TimePasses
      ]_vars

\* The HTML phase has succeeded on a state that carried the two errors of a
\* failed attempt, and the state it returned and persisted still has them.
C33_Witness ==
    \E c \in Clients :
        /\ Returned(req[c])
        /\ req[c].phase = "generate_html"
        /\ req[c].result = "success"
        /\ Len(Field(req[c].loaded, "errors")) = 2
        /\ req[c].state.errors = Field(req[c].loaded, "errors")
        /\ store[req[c].sid].val.errors = req[c].state.errors

(***************************************************************************)
(* C34.  Every request without a session key uses the one store key made   *)
(* from 'default': all keyless clients read, advance and reset the same    *)
(* persisted state, so a request of one keyless client changes what        *)
(* another keyless client sees.                                            *)
(***************************************************************************)
C34_KeylessClientsShareState ==
    [][\A c \in Clients :
          LET r == req[c]
              q == req'[c]
          IN q # r =>
               /\ q.sid = "default"
               /\ q.op = "get_generation_state" => q.state = Stored("default")
               /\ (IsAdvance(q) /\ r.pc # "model") => q.loaded = Stored("default")
               /\ Returned(q) =>
                     /\ "default" \in DOMAIN store'
                     /\ store'["default"].val = q.state
                     /\ DOMAIN store' = {"default"}
               /\ q.op = "reset_generation" => store' = <<>>
      ]_vars

\* Client 2 has read the state and got the page that the HTML phase of
\* client 1's request had just made.
C34_Witness ==
    /\ Returned(req[1])
    /\ req[1].phase = "generate_html"
    /\ req[1].result = "success"
    /\ req[2].op = "get_generation_state"
    /\ req[2].pc = "done"
    /\ req[2].state = req[1].state
    /\ Populated(req[2].state, "html")

(***************************************************************************)
(* C35.  Persisting and reloading is a round trip: the GenerationState an  *)
(* advance call rebuilds from the dictionary the previous call stored      *)
(* (structure rebuilt as WebsiteStructure, the other fields copied) equals *)
(* the state the previous call returned, for every state reached through   *)
(* advance; an absent or empty stored value loads as the empty state.      *)
(***************************************************************************)
C35_PersistReloadRoundTrip ==
    [][\A c \in Clients :
          LET r == req[c]
              q == req'[c]
          IN /\ (q # r /\ Returned(q)) =>
                   /\ LoadState(q.state) = q.gs
                   /\ AsDict(LoadState(q.state)) = q.state
             /\ (q # r /\ r.pc # "model" /\ IsAdvance(q) /\ ~q.reset) =>
                   /\ q.loaded = Stored(q.sid)
                   /\ (Returned(r) /\ Stored(q.sid) = r.state) =>
                         /\ q.phase = SelectPhase(r.gs)
                         /\ q.pc = "model" => q.gs = r.gs
                   /\ (q.sid \notin DOMAIN store \/ Stored(q.sid) = EmptyDict) =>
                         /\ q.phase = "analyze_structure"
                         /\ q.pc = "model" => q.gs = GenerationState
      ]_vars

\* The CSS phase is under way on the state rebuilt from what the HTML phase
\* of the call before had stored after an earlier failure: structure is a
\* WebsiteStructure again and the errors are there.
C35_Witness ==
    /\ req[1].pc = "model"
    /\ req[1].op = "process_prompt"
    /\ req[1].phase = "generate_css"
    /\ req[1].gs = LoadState(Stored("default"))
    /\ req[1].gs.structure.type = "WebsiteStructure"
    /\ Stored("default").structure.type = "dict"
    /\ req[1].gs.errors # <<>>
====
